---- MODULE Spec2Model ----
(***************************************************************************)
(* Structural validator of the Z markup language (ZMarkupParser).          *)
(* A line of text is a sequence of one-character strings; keywords, names  *)
(* and registry keys are such sequences too, so that the regular           *)
(* expressions of validateLine are computed character by character.        *)
(***************************************************************************)
EXTENDS Integers, Sequences, FiniteSets, TLC

\* ------------------------------------------------------------------ bounds
\* Number of lines of one validated text.
MaxLines == 3
MaxProbeLines == 3

\* ------------------------------------------------------- character classes
Lower == {"a","b","c","d","e","f","g","h","i","j","k","l","m",
          "n","o","p","q","r","s","t","u","v","w","x","y","z"}
Upper == {"A","B","C","D","E","F","G","H","I","J","K","L","M",
          "N","O","P","Q","R","S","T","U","V","W","X","Y","Z"}
Digit == {"0","1","2","3","4","5","6","7","8","9"}
\* [a-zA-Z]
Letter == Lower \cup Upper
\* [a-zA-Z0-9_]
IdentChar == Letter \cup Digit \cup {"_"}
\* [a-zA-Z0-9_-]
NameChar == IdentChar \cup {"-"}
\* \s, and the characters String.prototype.trim removes
WhiteSpace == {" ", "\t", "\r"}
\* the characters `.` does not match
LineTerminator == {"\r", "\n"}

\* Length of the longest run of characters of class C that starts at
\* position p (1-based) of s: what a greedy C* consumes there.
Run(s, p, C) ==
  IF p > Len(s) THEN 0
  ELSE CHOOSE n \in 0..(Len(s) + 1 - p) :
         /\ \A k \in p..(p + n - 1) : s[k] \in C
         /\ (p + n > Len(s) \/ s[p + n] \notin C)

\* String.prototype.trim
Trim(s) ==
  LET lead == Run(s, 1, WhiteSpace)
  IN  IF lead = Len(s) THEN <<>>
      ELSE LET final == CHOOSE e \in 1..Len(s) :
                         /\ s[e] \notin WhiteSpace
                         /\ \A k \in (e + 1)..Len(s) : s[k] \in WhiteSpace
           IN  SubSeq(s, lead + 1, final)

\* String.prototype.startsWith
StartsWith(s, prefix) ==
  Len(s) >= Len(prefix) /\ SubSeq(s, 1, Len(prefix)) = prefix

\* (.*)$ applied to the characters of s from position p on
DotStarToEnd(s, p) == \A k \in p..Len(s) : s[k] \notin LineTerminator

NoMatch == [matched |-> FALSE]

\* An item of a regular expression: C* (Many) or C? (Opt).
Many(C) == <<C, FALSE>>
Opt(C) == <<C, TRUE>>

\* Number of characters the greedy item takes at position p of s.
Take(s, p, item) ==
  IF item[2]
  THEN IF p <= Len(s) /\ s[p] \in item[1] THEN 1 ELSE 0
  ELSE Run(s, p, item[1])

\* The positions at which the items end when they are taken greedily one
\* after the other from the start of s: element k is the position just
\* after the k-th item.
ItemEnds(s, items) ==
  LET end[k \in 1..Len(items)] ==
        LET p == IF k = 1 THEN 1 ELSE end[k - 1]
        IN  p + Take(s, p, items[k])
  IN  [k \in 1..Len(items) |-> end[k]]

\* /^(\s*)([a-zA-Z][a-zA-Z0-9_]*)\s+([a-zA-Z][a-zA-Z0-9_-]*)\s*(\{?)(.*)$/
\* e = the ends of \s*, keyword, \s+, name, \s*, \{?
ElementCaptures(line, e) ==
  IF /\ e[1] <= Len(line) /\ line[e[1]] \in Letter
     /\ e[3] > e[2]
     /\ e[3] <= Len(line) /\ line[e[3]] \in Letter
     /\ DotStarToEnd(line, e[6])
  THEN [matched |-> TRUE, indent |-> e[1] - 1,
        keyword |-> SubSeq(line, e[1], e[2] - 1),
        name |-> SubSeq(line, e[3], e[4] - 1),
        openBrace |-> e[6] > e[5]]
  ELSE NoMatch

ElementMatch(line) ==
  ElementCaptures(line,
    ItemEnds(line, <<Many(WhiteSpace), Many(IdentChar), Many(WhiteSpace),
                     Many(NameChar), Many(WhiteSpace), Opt({"{"})>>))

\* The child pattern with optional leading white space, ^(\s*).
ChildCaptures_AnyIndent(line, e) ==
  IF /\ e[2] <= Len(line) /\ line[e[2]] \in Letter
     /\ (e[2] > e[1]) => (e[4] > e[3])
     /\ DotStarToEnd(line, e[6])
  THEN [matched |-> TRUE, indent |-> e[1] - 1,
        childName |-> SubSeq(line, e[1], e[4] - 1),
        openBrace |-> e[6] > e[5]]
  ELSE NoMatch

\* /^(\s+)([a-zA-Z][a-zA-Z0-9_]*|\[[a-zA-Z][a-zA-Z0-9_]*\])\s*(\{?)(.*)$/
\* e = the ends of \s+, \[, identifier, \], \s*, \{?; the first alternative
\* is the case of no bracket, the second the case of both.
ChildCaptures(line, e) ==
  IF /\ e[1] > 1
     /\ e[2] <= Len(line) /\ line[e[2]] \in Letter
     /\ (e[2] > e[1]) => (e[4] > e[3])
     /\ DotStarToEnd(line, e[6])
  THEN [matched |-> TRUE, indent |-> e[1] - 1,
        childName |-> SubSeq(line, e[1], e[4] - 1),
        openBrace |-> e[6] > e[5]]
  ELSE NoMatch

ChildMatch(line) ==
  IF Run(line, 1, WhiteSpace) < Len(line)
       /\ line[Run(line, 1, WhiteSpace) + 1] = "["
  THEN ChildCaptures(line,
         ItemEnds(line, <<Many(WhiteSpace), Opt({"["}), Many(IdentChar),
                          Opt({"]"}), Many(WhiteSpace), Opt({"{"})>>))
  ELSE ChildCaptures(line,
         ItemEnds(line, <<Many(WhiteSpace), Opt({}), Many(IdentChar),
                          Opt({}), Many(WhiteSpace), Opt({"{"})>>))

\* The namespace pattern without its brace group.
NamespaceCaptures_NoBrace(line, e) ==
  IF /\ e[1] > 1
     /\ e[1] <= Len(line) /\ line[e[1]] \in Upper
     /\ DotStarToEnd(line, e[4])
  THEN [matched |-> TRUE, indent |-> e[1] - 1,
        childName |-> SubSeq(line, e[1], e[2] - 1),
        openBrace |-> FALSE]
  ELSE NoMatch

\* /^(\s+)([A-Z][a-zA-Z0-9_]*)\s*(\{?)(.*)$/
\* e = the ends of \s+, name, \s*, \{?
NamespaceCaptures(line, e) ==
  IF /\ e[1] > 1
     /\ e[1] <= Len(line) /\ line[e[1]] \in Upper
     /\ DotStarToEnd(line, e[4])
  THEN [matched |-> TRUE, indent |-> e[1] - 1,
        childName |-> SubSeq(line, e[1], e[2] - 1),
        openBrace |-> e[4] > e[3]]
  ELSE NoMatch

NamespaceMatch(line) ==
  NamespaceCaptures(line,
    ItemEnds(line, <<Many(WhiteSpace), Many(IdentChar), Many(WhiteSpace),
                     Opt({"{"})>>))

\* childName used as written, brackets included.
CleanChildName_Keep(childName) == childName

\* childName.replace(/^\[|\]$/g, "")
CleanChildName(childName) ==
  LET a == IF Len(childName) >= 1 /\ childName[1] = "[" THEN 2 ELSE 1
      b == IF Len(childName) >= 1 /\ childName[Len(childName)] = "]"
           THEN Len(childName) - 1 ELSE Len(childName)
  IN  SubSeq(childName, a, b)

\* ---------------------------------------------------------------- registry
\* The registry shipped in the repository: the fields the validator reads.
\* targetKeys is the order of Object.keys(targets).
ShippedRegistry ==
  [ targetKeys |-> <<<<"w","o","r","k","s","p","a","c","e">>, <<"n","e","x","t">>, <<"s","w","i","f","t">>, <<"r","u","s","t">>, <<"t","a","u","r","i">>, <<"a","n","d","r","o","i","d">>, <<"h","a","r","m","o","n","y">>, <<"q","t">>, <<"j","a","v","a">>, <<"p","y","t","h","o","n">>, <<"b","a","s","h">>>>,
    targets |-> (
      (<<"w","o","r","k","s","p","a","c","e">> :> [mode |-> "markup", allowedChildren |-> <<<<"n","e","x","t">>, <<"s","w","i","f","t">>, <<"r","u","s","t">>, <<"t","a","u","r","i">>, <<"a","n","d","r","o","i","d">>, <<"h","a","r","m","o","n","y">>, <<"q","t">>, <<"j","a","v","a">>, <<"p","y","t","h","o","n">>, <<"b","a","s","h">>>>]) @@
      (<<"n","e","x","t">> :> [mode |-> "markup", allowedChildren |-> <<<<"R","o","u","t","e","s">>, <<"A","P","I">>, <<"C","o","m","p","o","n","e","n","t","s">>, <<"S","c","h","e","m","a">>>>]) @@
      (<<"s","w","i","f","t">> :> [mode |-> "markup", allowedChildren |-> <<<<"A","p","p">>, <<"C","o","m","p","o","n","e","n","t","s">>>>]) @@
      (<<"r","u","s","t">> :> [mode |-> "code", allowedChildren |-> <<<<"t","y","p","e">>, <<"f","u","n">>, <<"m","o","d">>>>]) @@
      (<<"t","a","u","r","i">> :> [mode |-> "markup", allowedChildren |-> <<<<"F","r","o","n","t","e","n","d">>, <<"B","a","c","k","e","n","d">>, <<"C","o","n","f","i","g">>>>]) @@
      (<<"a","n","d","r","o","i","d">> :> [mode |-> "markup", allowedChildren |-> <<<<"A","c","t","i","v","i","t","i","e","s">>, <<"S","e","r","v","i","c","e","s">>, <<"C","o","m","p","o","n","e","n","t","s">>>>]) @@
      (<<"h","a","r","m","o","n","y">> :> [mode |-> "markup", allowedChildren |-> <<<<"P","a","g","e","s">>, <<"C","o","m","p","o","n","e","n","t","s">>>>]) @@
      (<<"q","t">> :> [mode |-> "markup", allowedChildren |-> <<<<"W","i","n","d","o","w","s">>, <<"C","o","m","p","o","n","e","n","t","s">>>>]) @@
      (<<"j","a","v","a">> :> [mode |-> "code", allowedChildren |-> <<<<"c","l","a","s","s">>, <<"i","n","t","e","r","f","a","c","e">>, <<"p","a","c","k","a","g","e">>>>]) @@
      (<<"p","y","t","h","o","n">> :> [mode |-> "code", allowedChildren |-> <<<<"c","l","a","s","s">>, <<"f","u","n","c","t","i","o","n">>, <<"m","o","d","u","l","e">>>>]) @@
      (<<"b","a","s","h">> :> [mode |-> "code", allowedChildren |-> <<<<"f","u","n","c","t","i","o","n">>, <<"s","c","r","i","p","t">>>>])),
    namespaces |-> (
      (<<"R","o","u","t","e","s">> :> [allowedChildren |-> <<<<"r","o","u","t","e">>>>]) @@
      (<<"A","P","I">> :> [allowedChildren |-> <<<<"r","o","u","t","e">>>>]) @@
      (<<"C","o","m","p","o","n","e","n","t","s">> :> [allowedChildren |-> <<<<"c","o","m","p","o","n","e","n","t">>>>]) @@
      (<<"S","c","h","e","m","a">> :> [allowedChildren |-> <<<<"t","a","b","l","e">>, <<"m","o","d","e","l">>, <<"e","n","u","m">>, <<"i","n","d","e","x">>, <<"t","y","p","e">>>>]) @@
      (<<"A","p","p">> :> [allowedChildren |-> <<<<"v","i","e","w">>>>]) @@
      (<<"F","r","o","n","t","e","n","d">> :> [allowedChildren |-> <<<<"c","o","m","p","o","n","e","n","t">>>>]) @@
      (<<"B","a","c","k","e","n","d">> :> [allowedChildren |-> <<<<"s","e","r","v","i","c","e">>>>]) @@
      (<<"C","o","n","f","i","g">> :> [allowedChildren |-> <<<<"c","o","n","f","i","g">>>>]) @@
      (<<"A","c","t","i","v","i","t","i","e","s">> :> [allowedChildren |-> <<<<"a","c","t","i","v","i","t","y">>>>]) @@
      (<<"S","e","r","v","i","c","e","s">> :> [allowedChildren |-> <<<<"s","e","r","v","i","c","e">>>>]) @@
      (<<"P","a","g","e","s">> :> [allowedChildren |-> <<<<"p","a","g","e">>>>]) @@
      (<<"W","i","n","d","o","w","s">> :> [allowedChildren |-> <<<<"w","i","n","d","o","w">>>>]) @@
      (<<"t","y","p","e">> :> [allowedChildren |-> <<<<"t","y","p","e">>, <<"i","n","t","e","r","f","a","c","e">>, <<"e","n","u","m">>>>]) @@
      (<<"f","u","n">> :> [allowedChildren |-> <<<<"f","u","n","c","t","i","o","n">>>>]) @@
      (<<"m","o","d">> :> [allowedChildren |-> <<<<"m","o","d","u","l","e">>>>]) @@
      (<<"c","l","a","s","s">> :> [allowedChildren |-> <<<<"c","l","a","s","s">>>>]) @@
      (<<"i","n","t","e","r","f","a","c","e">> :> [allowedChildren |-> <<<<"i","n","t","e","r","f","a","c","e">>>>]) @@
      (<<"p","a","c","k","a","g","e">> :> [allowedChildren |-> <<<<"p","a","c","k","a","g","e">>>>]) @@
      (<<"f","u","n","c","t","i","o","n">> :> [allowedChildren |-> <<<<"f","u","n","c","t","i","o","n">>>>]) @@
      (<<"m","o","d","u","l","e">> :> [allowedChildren |-> <<<<"m","o","d","u","l","e">>>>]) @@
      (<<"s","c","r","i","p","t">> :> [allowedChildren |-> <<<<"s","c","r","i","p","t">>>>]) @@
      (<<"t","a","b","l","e">> :> [allowedChildren |-> <<<<"f","i","e","l","d">>>>]) @@
      (<<"m","o","d","e","l">> :> [allowedChildren |-> <<<<"f","i","e","l","d">>>>]) @@
      (<<"e","n","u","m">> :> [allowedChildren |-> <<<<"v","a","l","u","e">>>>]) @@
      (<<"i","n","d","e","x">> :> [allowedChildren |-> <<<<"f","i","e","l","d">>>>])) ]


\* A second registry: no `workspace` target, a namespace that allows any
\* child, and a target whose allowedChildren names kinds (`table`,
\* `constructor`) that are keys of neither targets nor namespaces.
SmallRegistry ==
  [ targetKeys |-> <<<<"n","e","x","t">>, <<"r","u","s","t">>>>,
    targets |-> (
      (<<"n","e","x","t">> :> [mode |-> "markup", allowedChildren |-> <<<<"R","o","u","t","e","s">>>>]) @@
      (<<"r","u","s","t">> :> [mode |-> "code", allowedChildren |-> <<<<"m","o","d">>, <<"t","a","b","l","e">>,
                                <<"c","o","n","s","t","r","u","c","t","o","r">>>>])),
    namespaces |-> (
      (<<"R","o","u","t","e","s">> :> [allowedChildren |-> <<<<"*">>>>]) @@
      (<<"m","o","d">> :> [allowedChildren |-> <<<<"m","o","d","u","l","e">>>>])) ]

Registries == {ShippedRegistry, SmallRegistry}

\* The letter-initial properties every object inherits from Object.prototype:
\* obj[k] is truthy for them although k is no key of obj.
ObjectPrototypeKeys ==
  { <<"c","o","n","s","t","r","u","c","t","o","r">>,
    <<"h","a","s","O","w","n","P","r","o","p","e","r","t","y">>,
    <<"i","s","P","r","o","t","o","t","y","p","e","O","f">>,
    <<"p","r","o","p","e","r","t","y","I","s","E","n","u","m","e","r","a","b","l","e">>,
    <<"t","o","L","o","c","a","l","e","S","t","r","i","n","g">>,
    <<"t","o","S","t","r","i","n","g">>,
    <<"v","a","l","u","e","O","f">> }

reservedNames ==
  << <<"f","u","n","c","t","i","o","n">>,
     <<"c","l","a","s","s">>,
     <<"i","n","t","e","r","f","a","c","e">>,
     <<"l","e","t">>,
     <<"c","o","n","s","t">>,
     <<"v","a","r">> >>

workspace == <<"w","o","r","k","s","p","a","c","e">>

Wildcard == <<"*">>

\* ------------------------------------------------------------------ inputs
\* The lines a text is made of.
LinePool ==
  {
    <<"/","/"," ","c"," ","{">>,   \* // c {
    <<" "," ">>,   \* a blank line of two spaces
    <<"}">>,   \* }
    <<"n","e","x","t"," ","A","p","p"," ","{">>,   \* next App {
    <<" "," ","R","o","u","t","e","s"," ","{">>,   \*   Routes {
    <<" "," "," "," ","h","o","m","e">>,   \*     home
    <<"b","o","g","u","s"," ","c","l","a","s","s"," ","{","}">>,   \* bogus class {}
    <<" "," ","c","l","a","s","s">>,   \*   class
    <<"n","e","x","t"," ","i","m","p","o","r","t"," ","{">>,   \* next import {
    <<"n","e","x","t"," ","9","A","p","p"," ","{">>,   \* next 9App {
    <<" ","t","a","b","l","e"," ","U","s","e","r"," ","{">>,   \*  table User {
    <<" "," ","[","s","l","u","g","]"," ","{">>,   \*   [slug] {
    <<" "," ","m","y","-","r","o","u","t","e"," ","{">>,   \*   my-route {
    <<"c","o","n","s","t","r","u","c","t","o","r"," ","A","p","p"," ","{">>,   \* constructor App {
    <<" "," ","n","e","x","t"," ","a","p","p"," ","{">>,   \*   next app {
    <<"w","o","r","k","s","p","a","c","e"," ","W"," ","{">>    \* workspace W {
  }

\* The lines of the texts that probe single declarations: a keyword in the
\* wrong place, a reserved name, a dynamic route next to its bare twin.
ProbePool ==
  {
    <<"n","e","x","t"," ","A","p","p"," ","{">>,   \* next App {
    <<"R","o","u","t","e","s"," ","{">>,   \* Routes {
    <<"R","o","u","t","e","s"," ","F","o","o"," ","{">>,   \* Routes Foo {
    <<" "," ","n","e","x","t">>,   \*   next
    <<" "," ","n","e","x","t"," ","c","l","a","s","s"," ","{">>,   \*   next class {
    <<"b","o","g","u","s"," ","c","l","a","s","s"," ","{","}">>,   \* bogus class {}
    <<"w","o","r","k","s","p","a","c","e"," ","W"," ","{">>,   \* workspace W {
    <<" "," ","[","s","l","u","g","]"," ","{">>,   \*   [slug] {
    <<" "," ","s","l","u","g"," ","{">>,   \*   slug {
    <<"@","p","a","g","e"," ","{">>,   \* @page {
    <<"}">>,   \* }
    <<" "," ","R","o","u","t","e","s"," ","{">>,   \*   Routes {
    <<" "," ","w","o","r","k","s","p","a","c","e">>   \*   workspace
  }

\* obj?.[k] is truthy
Truthy(obj, k) == k \in DOMAIN obj \/ k \in ObjectPrototypeKeys

\* obj[k].allowedChildren || []
AllowedChildrenOf(obj, k) ==
  IF k \in DOMAIN obj THEN obj[k].allowedChildren ELSE <<>>

\* obj[k].mode || "markup"
ModeOf(obj, k) == IF k \in DOMAIN obj THEN obj[k].mode ELSE "markup"

\* Array.prototype.includes
Includes(arr, x) == \E k \in 1..Len(arr) : arr[k] = x

\* ------------------------------------------------------------- diagnostics
MsgInvalidName == "Invalid element name '%name'. Must start with a letter and contain only letters, numbers, underscores, and dashes"
MsgReserved == "'%name' is a reserved name and cannot be used"
MsgWorkspaceUnsupported == "workspace is not supported in this Z language version"
MsgUnknownRoot == "Unknown root element '%keyword'. Valid root elements: %list"
MsgNoParent == "Unexpected element '%keyword' - no parent context"
MsgUnexpectedChild == "Unexpected child element '%keyword' outside of any parent context"
MsgNotAllowed == "'%keyword' is not allowed in '%elementType'. Allowed children: %list"

\* A message is its template with the values substituted into it; list is
\* the array that the code joins with ", ".
Message(template, subject, elementType, list) ==
  [template |-> template, subject |-> subject,
   elementType |-> elementType, list |-> list]

\* addDiagnostic with the two ends of the range exchanged.
addDiagnostic_Reversed(element, message, severity) ==
  [severity |-> severity,
   range |-> [start |-> [line |-> element.line, character |-> element.endChar],
              end   |-> [line |-> element.line, character |-> element.startChar]],
   message |-> message,
   source |-> "z-markup"]

addDiagnostic(element, message, severity) ==
  [severity |-> severity,
   range |-> [start |-> [line |-> element.line, character |-> element.startChar],
              end   |-> [line |-> element.line, character |-> element.endChar]],
   message |-> message,
   source |-> "z-markup"]

ParsedElement(keyword, name, line, startChar, endChar) ==
  [keyword |-> keyword, name |-> name, line |-> line,
   startChar |-> startChar, endChar |-> endChar]

\* ----------------------------------------------------------- context stack
getCurrentContext(stack) ==
  IF Len(stack) = 0 THEN [null |-> TRUE] ELSE stack[Len(stack)]

IsNull(context) == "null" \in DOMAIN context

\* popContext that leaves a frame behind when it finds the stack empty.
popContext_Underflow(stack) ==
  IF Len(stack) = 0
  THEN <<[elementType |-> <<>>, elementName |-> <<>>,
          allowedChildren |-> <<>>, mode |-> "markup", line |-> 0]>>
  ELSE SubSeq(stack, 1, Len(stack) - 1)

\* popContext that removes nothing.
popContext_Keep(stack) == stack

\* popContext removing the oldest frame, Array.prototype.shift.
popContext_Shift(stack) ==
  IF Len(stack) = 0 THEN stack ELSE SubSeq(stack, 2, Len(stack))

popContext(stack) ==
  IF Len(stack) = 0 THEN stack ELSE SubSeq(stack, 1, Len(stack) - 1)

ResolveContext(reg, keyword) ==
  IF keyword = workspace
  THEN [allowedChildren |-> reg.targetKeys, mode |-> "markup"]
  ELSE IF Truthy(reg.targets, keyword)
  THEN [allowedChildren |-> AllowedChildrenOf(reg.targets, keyword),
        mode |-> ModeOf(reg.targets, keyword)]
  ELSE IF Truthy(reg.namespaces, keyword)
  THEN [allowedChildren |-> AllowedChildrenOf(reg.namespaces, keyword),
        mode |-> "markup"]
  ELSE [allowedChildren |-> <<Wildcard>>, mode |-> "markup"]

pushContext(reg, stack, keyword, name, line) ==
  LET r == ResolveContext(reg, keyword)
  IN  Append(stack, [elementType |-> keyword, elementName |-> name,
                     allowedChildren |-> r.allowedChildren,
                     mode |-> r.mode, line |-> line])

\* -------------------------------------------------------------- validation
\* isChildAllowed without the wildcard case.
isChildAllowed_DirectOnly(childKeyword, context) ==
  Includes(context.allowedChildren, childKeyword)

\* isChildAllowed that lets every child pass in a context of mode "code".
isChildAllowed_CodeAllowsAll(childKeyword, context) ==
  \/ context.mode = "code"
  \/ Includes(context.allowedChildren, Wildcard)
  \/ Includes(context.allowedChildren, childKeyword)

isChildAllowed(childKeyword, context) ==
  \/ Includes(context.allowedChildren, Wildcard)
  \/ Includes(context.allowedChildren, childKeyword)

\* /^[a-zA-Z][a-zA-Z0-9_-]*$/.test(name)
NamePatternTest(name) ==
  /\ Len(name) >= 1
  /\ name[1] \in Letter
  /\ Run(name, 1, NameChar) = Len(name)

validateElementName(element) ==
  (IF ~NamePatternTest(element.name)
   THEN <<addDiagnostic(element,
            Message(MsgInvalidName, element.name, <<>>, <<>>), "Error")>>
   ELSE <<>>)
  \o
  (IF Includes(reservedNames, element.name)
   THEN <<addDiagnostic(element,
            Message(MsgReserved, element.name, <<>>, <<>>), "Error")>>
   ELSE <<>>)

\* validateRootElement without the case of `workspace`.
validateRootElement_NoWorkspaceCase(reg, element) ==
  IF Truthy(reg.targets, element.keyword)
  THEN <<>>
  ELSE <<addDiagnostic(element,
           Message(MsgUnknownRoot, element.keyword, <<>>,
                   <<workspace>> \o reg.targetKeys), "Error")>>

validateRootElement(reg, element) ==
  IF element.keyword = workspace
  THEN IF ~(workspace \in DOMAIN reg.targets)
       THEN <<addDiagnostic(element,
                Message(MsgWorkspaceUnsupported, <<>>, <<>>, <<>>), "Error")>>
       ELSE <<>>
  ELSE IF Truthy(reg.targets, element.keyword)
  THEN <<>>
  ELSE <<addDiagnostic(element,
           Message(MsgUnknownRoot, element.keyword, <<>>,
                   <<workspace>> \o reg.targetKeys), "Error")>>

\* validateChildElement that never reports a disallowed child.
validateChildElement_Silent(element, context) ==
  IF IsNull(context)
  THEN <<addDiagnostic(element,
           Message(MsgNoParent, element.keyword, <<>>, <<>>), "Error")>>
  ELSE <<>>

validateChildElement(element, context) ==
  IF IsNull(context)
  THEN <<addDiagnostic(element,
           Message(MsgNoParent, element.keyword, <<>>, <<>>), "Error")>>
  ELSE IF ~isChildAllowed(element.keyword, context)
  THEN <<addDiagnostic(element,
           Message(MsgNotAllowed, element.keyword, context.elementType,
                   context.allowedChildren), "Error")>>
  ELSE <<>>

\* validateChild that lets a child pass when there is no parent.
validateChild_NullPasses(element, context) ==
  IF IsNull(context)
  THEN <<>>
  ELSE IF ~isChildAllowed(element.keyword, context)
  THEN <<addDiagnostic(element,
           Message(MsgNotAllowed, element.keyword, context.elementType,
                   context.allowedChildren), "Error")>>
  ELSE <<>>

validateChild(element, context) ==
  IF IsNull(context)
  THEN <<addDiagnostic(element,
           Message(MsgUnexpectedChild, element.keyword, <<>>, <<>>), "Error")>>
  ELSE IF ~isChildAllowed(element.keyword, context)
  THEN <<addDiagnostic(element,
           Message(MsgNotAllowed, element.keyword, context.elementType,
                   context.allowedChildren), "Error")>>
  ELSE <<>>

\* The indentation level without the division by the indentation width.
IndentLevel_NoHalving(indent) == indent

\* Math.floor(indent.length / 2)
IndentLevel(indent) == indent \div 2

\* validateElement that stops at a name it has reported.
validateElement_StopAtName(reg, element, indentLevel, stack) ==
  IF validateElementName(element) # <<>>
  THEN validateElementName(element)
  ELSE IF indentLevel = 0
  THEN validateRootElement(reg, element)
  ELSE validateChildElement(element, getCurrentContext(stack))

validateElement(reg, element, indentLevel, stack) ==
  validateElementName(element)
  \o (IF indentLevel = 0
      THEN validateRootElement(reg, element)
      ELSE validateChildElement(element, getCurrentContext(stack)))

\* The effect of validateLine on (contextStack, diagnostics): the new stack,
\* the diagnostics it appends, and which branch and which check it took.
Effect(stack, added, shape, check, pushed) ==
  [contextStack |-> stack, added |-> added, shape |-> shape,
   check |-> check, pushed |-> pushed]

\* The captures of a line with the length of the cleaned keyword for every
\* shape.
Declared_KeywordLen(shape, m, keyword) ==
  [shape |-> shape, indent |-> m.indent, keyword |-> keyword,
   name |-> IF shape = "element" THEN m.name ELSE keyword,
   tokenLen |-> Len(keyword),
   openBrace |-> m.openBrace]

\* The branch of validateLine that a line takes and the values its regular
\* expressions capture: they depend on the line alone.
Declared(shape, m, keyword) ==
  [shape |-> shape, indent |-> m.indent, keyword |-> keyword,
   name |-> IF shape = "element" THEN m.name ELSE keyword,
   tokenLen |-> IF shape = "element" THEN Len(keyword) ELSE Len(m.childName),
   openBrace |-> m.openBrace]

Classify(line) ==
  IF Trim(line) = <<>> \/ StartsWith(Trim(line), <<"/", "/">>)
  THEN [shape |-> "skip"]
  ELSE IF Trim(line) = <<"}">>
  THEN [shape |-> "close"]
  ELSE IF ElementMatch(line).matched
  THEN Declared("element", ElementMatch(line), ElementMatch(line).keyword)
  ELSE IF ChildMatch(line).matched
  THEN Declared("child", ChildMatch(line),
                CleanChildName(ChildMatch(line).childName))
  ELSE IF NamespaceMatch(line).matched
  THEN Declared("namespace", NamespaceMatch(line),
                NamespaceMatch(line).childName)
  ELSE [shape |-> "unmatched"]

\* The rest of validateLine, for a line classified as c.
Validate(reg, stack, c, lineNumber) ==
  CASE c.shape = "skip" -> Effect(stack, <<>>, c.shape, "none", FALSE)
    [] c.shape = "close" ->
         Effect(popContext(stack), <<>>, c.shape, "none", FALSE)
    [] c.shape = "element" ->
         Effect(IF c.openBrace
                THEN pushContext(reg, stack, c.keyword, c.name, lineNumber)
                ELSE stack,
                validateElement(reg,
                  ParsedElement(c.keyword, c.name, lineNumber,
                                c.indent, c.indent + c.tokenLen),
                  IndentLevel(c.indent), stack),
                c.shape,
                IF IndentLevel(c.indent) = 0 THEN "root" ELSE "nested",
                c.openBrace)
    [] c.shape \in {"child", "namespace"} ->
         Effect(IF c.openBrace
                THEN pushContext(reg, stack, c.keyword, c.name, lineNumber)
                ELSE stack,
                validateChild(
                  ParsedElement(c.keyword, c.name, lineNumber,
                                c.indent, c.indent + c.tokenLen),
                  getCurrentContext(stack)),
                c.shape, "child", c.openBrace)
    [] OTHER -> Effect(stack, <<>>, c.shape, "none", FALSE)

\* The classification of the lines of the pool, computed once.
Classified == [line \in LinePool \cup ProbePool |-> Classify(line)]

\* validateLine that takes a blank or comment line for a closing brace.
validateLine_SkipCloses(reg, stack, line, lineNumber) ==
  Validate(reg, stack,
           IF Classify(line).shape = "skip" THEN [shape |-> "close"]
           ELSE Classify(line),
           lineNumber)

validateLine(reg, stack, line, lineNumber) ==
  Validate(reg, stack,
           IF line \in LinePool \cup ProbePool THEN Classified[line]
           ELSE Classify(line),
           lineNumber)

\* ------------------------------------------------------------ state machine
VARIABLES
  registry,      \* this.registry, loaded by the constructor
  pc,            \* "idle" between calls, "loop" inside validateZMarkup
  lines,         \* the lines of the text that the loop has consumed so far
  contextStack,  \* this.contextStack
  diagnostics,   \* this.diagnostics
  result,        \* the list returned by the last completed call
  dirty,         \* the running call began with frames and diagnostics
                 \* left over from the previous call (history)
  last           \* what validateLine did with the last line (history)

\* The process around the parser: the registry files, the loader's cache and
\* the calls of loadRegistry and validateZLanguageText.
VARIABLES
  files,           \* what each candidate path of loadRegistry holds
  cachedRegistry,  \* the module-level cachedRegistry of z-registry.ts
  loaded,          \* the outcome of the last loadRegistry call, and whether
                   \* the call before it threw (history)
  first,           \* what the first loadRegistry call that returned gave
                   \* (history)
  text,            \* the lines of the last text given to validateZLanguageText
  returned         \* what that call returned, and whether the loadRegistry
                   \* call of its parser threw (history)

parserVars ==
  <<registry, pc, lines, contextStack, diagnostics, result, dirty, last>>

processVars == <<files, cachedRegistry, loaded, first, text, returned>>

\* The language server in front of the validation: the notifications of the
\* client and what the server passes on to the inherited TypeScript handler.
VARIABLES
  opened,          \* the URIs the client has opened
  tsOpened,        \* the URIs for which super.didOpenTextDocument was called
  sent             \* the last notification and what the server did with it
                   \* (history)

serverVars == <<opened, tsOpened, sent>>

vars == <<parserVars, processVars, serverVars>>

\* possiblePaths: workspace-relative, parent-relative, embedded fallback.
Candidates == 1..3

\* What a candidate path can hold: nothing, something that cannot be read or
\* parsed, the JSON text `null`, or one of the two registries.
FileContents == {"missing", "corrupt", "null", "shipped", "small"}

NotCalled ==
  [called |-> FALSE, threw |-> FALSE, value |-> "null", reads |-> {},
   retry |-> FALSE]

NotReturned ==
  [called |-> FALSE, threw |-> FALSE, loadThrew |-> FALSE, diagnostics |-> <<>>]

NotSent ==
  [op |-> "none", uri |-> <<>>, change |-> "none", content |-> <<>>,
   asked |-> FALSE, markup |-> FALSE, to |-> "nobody"]

\* The server before the first notification.
ServerAtRest ==
  /\ opened = {}
  /\ tsOpened = {}
  /\ sent = NotSent

\* The process before any call, with no candidate file in place.
ProcessAtRest ==
  /\ files = [i \in Candidates |-> "missing"]
  /\ cachedRegistry = "null"
  /\ loaded = NotCalled
  /\ first = "none"
  /\ text = <<>>
  /\ returned = NotReturned
  /\ ServerAtRest

NoLine == [shape |-> "none", check |-> "none", pushed |-> FALSE,
           depthBefore |-> 0, added |-> <<>>]

Init ==
  /\ registry \in Registries
  /\ pc = "idle"
  /\ lines = <<>>
  /\ contextStack = <<>>
  /\ diagnostics = <<>>
  /\ result = <<>>
  /\ dirty = FALSE
  /\ last = NoLine
  /\ ProcessAtRest

\* validateZMarkup without the reset of contextStack.
validateZMarkup_KeepStack ==
  /\ pc = "idle"
  /\ pc' = "loop"
  /\ diagnostics' = <<>>
  /\ lines' = <<>>
  /\ result' = <<>>
  /\ last' = NoLine
  /\ dirty' = (contextStack # <<>> /\ diagnostics # <<>>)
  /\ UNCHANGED <<registry, contextStack, processVars, serverVars>>

\* validateZMarkup reading the registry anew at every call.
validateZMarkup_Reload ==
  /\ pc = "idle"
  /\ pc' = "loop"
  /\ registry' \in Registries
  /\ diagnostics' = <<>>
  /\ contextStack' = <<>>
  /\ lines' = <<>>
  /\ result' = <<>>
  /\ last' = NoLine
  /\ dirty' = (contextStack # <<>> /\ diagnostics # <<>>)
  /\ UNCHANGED <<processVars, serverVars>>

\* validateZMarkup, entry: both fields are reset before the text is read.
\* The text is revealed line by line as the loop consumes it.
validateZMarkup ==
  /\ pc = "idle"
  /\ pc' = "loop"
  /\ diagnostics' = <<>>
  /\ contextStack' = <<>>
  /\ lines' = <<>>
  /\ result' = <<>>
  /\ last' = NoLine
  /\ dirty' = (contextStack # <<>> /\ diagnostics # <<>>)
  /\ UNCHANGED <<registry, processVars, serverVars>>

\* The loop of validateZMarkup leaving at the first line after an Error.
LoopIteration_StopOnError ==
  /\ pc = "loop"
  /\ Len(lines) < MaxLines
  /\ \A k \in 1..Len(diagnostics) : diagnostics[k].severity # "Error"
  /\ \E line \in LinePool :
       LET e == validateLine(registry, contextStack, line, Len(lines))
       IN  /\ lines' = Append(lines, line)
           /\ contextStack' = e.contextStack
           /\ diagnostics' = diagnostics \o e.added
           /\ last' = [shape |-> e.shape, check |-> e.check,
                       pushed |-> e.pushed,
                       depthBefore |-> Len(contextStack),
                       added |-> e.added]
  /\ UNCHANGED <<registry, pc, result, dirty, processVars, serverVars>>

\* One iteration of the loop of validateZMarkup: validateLine(lines[i], i).
LoopIteration ==
  /\ pc = "loop"
  /\ Len(lines) < MaxLines
  /\ \E line \in LinePool :
       LET e == validateLine(registry, contextStack, line, Len(lines))
       IN  /\ lines' = Append(lines, line)
           /\ contextStack' = e.contextStack
           /\ diagnostics' = diagnostics \o e.added
           /\ last' = [shape |-> e.shape, check |-> e.check,
                       pushed |-> e.pushed,
                       depthBefore |-> Len(contextStack),
                       added |-> e.added]
  /\ UNCHANGED <<registry, pc, result, dirty, processVars, serverVars>>

\* The end of the text reporting the scopes that are still open.
ReturnDiagnostics_ReportsOpenScopes ==
  /\ pc = "loop"
  /\ pc' = "idle"
  /\ result' = diagnostics \o
       [k \in 1..Len(contextStack) |->
          [severity |-> "Error",
           range |-> [start |-> [line |-> contextStack[k].line, character |-> 0],
                      end |-> [line |-> contextStack[k].line, character |-> 0]],
           message |-> Message("Unclosed '%name'", contextStack[k].elementName,
                               <<>>, <<>>),
           source |-> "z-markup"]]
  /\ UNCHANGED <<registry, lines, contextStack, diagnostics, dirty, last,
               processVars, serverVars>>

\* End of the text: the loop exits and validateZMarkup returns this.diagnostics.
ReturnDiagnostics ==
  /\ pc = "loop"
  /\ pc' = "idle"
  /\ result' = diagnostics
  /\ UNCHANGED <<registry, lines, contextStack, diagnostics, dirty, last,
               processVars, serverVars>>

Next == validateZMarkup \/ LoopIteration \/ ReturnDiagnostics

Spec == Init /\ [][Next]_vars

\* The loop keeping only the diagnostics of the last line that had any.
ProbeIteration_LatestOnly ==
  /\ pc = "loop"
  /\ Len(lines) < MaxProbeLines
  /\ \E line \in ProbePool :
       LET e == validateLine(registry, contextStack, line, Len(lines))
       IN  /\ lines' = Append(lines, line)
           /\ contextStack' = e.contextStack
           /\ diagnostics' = IF e.added # <<>> THEN e.added ELSE diagnostics
           /\ last' = [shape |-> e.shape, check |-> e.check,
                       pushed |-> e.pushed,
                       depthBefore |-> Len(contextStack),
                       added |-> e.added]
  /\ UNCHANGED <<registry, pc, result, dirty, processVars, serverVars>>

\* The same loop reading the probing lines.
ProbeIteration ==
  /\ pc = "loop"
  /\ Len(lines) < MaxProbeLines
  /\ \E line \in ProbePool :
       LET e == validateLine(registry, contextStack, line, Len(lines))
       IN  /\ lines' = Append(lines, line)
           /\ contextStack' = e.contextStack
           /\ diagnostics' = diagnostics \o e.added
           /\ last' = [shape |-> e.shape, check |-> e.check,
                       pushed |-> e.pushed,
                       depthBefore |-> Len(contextStack),
                       added |-> e.added]
  /\ UNCHANGED <<registry, pc, result, dirty, processVars, serverVars>>

ProbeNext == validateZMarkup \/ ProbeIteration \/ ReturnDiagnostics

ProbeSpec == Init /\ [][ProbeNext]_vars

\* ----------------------------------------------------- derived observations
\* The line that validateLine handled last, and what it captured from it.
LastLine == lines[Len(lines)]
LastParsed == Classified[LastLine]
LastLineNumber == Len(lines) - 1

DeclShapes == {"element", "child", "namespace"}

\* The stack as the last declaration line found it.
StackBefore ==
  IF last.pushed THEN SubSeq(contextStack, 1, Len(contextStack) - 1)
  ELSE contextStack

TopBefore == StackBefore[Len(StackBefore)]

Templates(ds) == {ds[k].message.template : k \in 1..Len(ds)}

WithTemplate(ds, t) == {k \in 1..Len(ds) : ds[k].message.template = t}

Errors(ds) == {k \in 1..Len(ds) : ds[k].severity = "Error"}

\* The state a freshly constructed parser is in after the first k lines of ls.
RECURSIVE FreshRun(_, _, _)
FreshRun(reg, ls, k) ==
  IF k = 0 THEN [contextStack |-> <<>>, diagnostics |-> <<>>]
  ELSE LET prev == FreshRun(reg, ls, k - 1)
           e == validateLine(reg, prev.contextStack, ls[k], k - 1)
       IN  [contextStack |-> e.contextStack,
            diagnostics |-> prev.diagnostics \o e.added]

\* ------------------------------------------------------------------ claims

\* C1: whatever an earlier call on the same parser left behind, the list a
\* call returns for a text is the list a freshly constructed parser returns
\* for that text.
C1_SameAsFreshParser ==
  pc = "idle" => result = FreshRun(registry, lines, Len(lines)).diagnostics

\* C1 witness: a call that began on a parser holding frames and diagnostics
\* of an earlier call has returned, again with diagnostics and open frames.
C1_Witness ==
  /\ pc = "idle" /\ dirty
  /\ Len(lines) >= 2 /\ result # <<>> /\ contextStack # <<>>

\* C2 (as stated): a document whose root-level keywords are `workspace` or
\* registered targets and whose nested keywords are allowed by the enclosing
\* context (or that context allows `*`) gets no Error diagnostic.  Root-level
\* and nested are told apart by the context stack, as the claim does.
AllowedBy(context, keyword) ==
  \/ Includes(context.allowedChildren, keyword)
  \/ Includes(context.allowedChildren, Wildcard)

KeywordsWellFormed(reg, ls) ==
  \A k \in 1..Len(ls) :
    LET c == Classified[ls[k]]
        st == FreshRun(reg, ls, k - 1).contextStack
    IN  c.shape \in DeclShapes =>
          IF st = <<>>
          THEN c.keyword = workspace \/ c.keyword \in DOMAIN reg.targets
          ELSE AllowedBy(st[Len(st)], c.keyword)

C2_Original ==
  (pc = "idle" /\ KeywordsWellFormed(registry, lines)) => Errors(result) = {}

\* C2 (amended): no Error diagnostic is returned for a document in which no
\* element declaration has a reserved name, every element declaration with
\* fewer than two leading whitespace characters has a key of the registry's
\* targets as keyword, and every other declaration (an element declaration
\* indented by two or more characters, a bare child line) is reached with a
\* non-empty stack whose top frame allows its keyword or `*`.
StrictlyWellFormed(reg, ls) ==
  \A k \in 1..Len(ls) :
    LET c == Classified[ls[k]]
        st == FreshRun(reg, ls, k - 1).contextStack
    IN  c.shape \in DeclShapes =>
          /\ c.shape = "element" => ~Includes(reservedNames, c.name)
          /\ IF c.shape = "element" /\ c.indent < 2
             THEN c.keyword \in DOMAIN reg.targets
             ELSE st # <<>> /\ AllowedBy(st[Len(st)], c.keyword)

C2_NoErrorWhenWellFormed ==
  (pc = "idle" /\ StrictlyWellFormed(registry, lines)) => Errors(result) = {}

\* C2 witness: a returned three-line document of a root element, a nested
\* element and a bare child, all well-formed, with its three scopes open.
C2_Witness ==
  /\ pc = "idle" /\ Len(lines) = 3
  /\ StrictlyWellFormed(registry, lines)
  /\ Classified[lines[2]].shape = "element"
  /\ Classified[lines[3]].shape = "child"
  /\ Len(contextStack) = 3
  /\ result = <<>>

\* C3: with the shipped registry, a bare child identifier inside a
\* namespace that its target allows yields no 'not allowed in' diagnostic.
C3_NamespaceChildrenAccepted ==
  ( /\ registry = ShippedRegistry
    /\ last.shape = "child"
    /\ LastParsed.tokenLen = Len(Trim(LastLine))
    /\ Len(StackBefore) >= 2
    /\ LET top == StackBefore[Len(StackBefore)]
           parent == StackBefore[Len(StackBefore) - 1]
       IN  /\ parent.elementType \in DOMAIN registry.targets
           /\ top.elementType \in DOMAIN registry.namespaces
           /\ Includes(parent.allowedChildren, top.elementType) )
  => WithTemplate(last.added, MsgNotAllowed) = {}

\* C4 (as stated): an element declaration gets the root-level check exactly
\* when the context stack is empty when its line is reached.
C4_Original ==
  last.shape = "element" => (last.check = "root" <=> last.depthBefore = 0)

\* C4 (amended): an element declaration gets the root-level check exactly
\* when its line has fewer than two leading whitespace characters, and the
\* nested check otherwise, whatever the depth of the context stack.
C4_CheckByIndentation ==
  last.shape = "element" =>
    /\ last.check \in {"root", "nested"}
    /\ last.check = "root" <=> Run(LastLine, 1, WhiteSpace) < 2

\* C4 witness: an element declaration reached inside an open scope is given
\* the root-level check.
C4_Witness ==
  last.shape = "element" /\ last.check = "root" /\ last.depthBefore > 0

\* C5: an element declaration given the root-level check yields an 'Unknown
\* root element' Error exactly when its keyword is neither `workspace` nor a
\* key of the registry's targets; the Error spans the keyword token, names
\* the keyword and lists `workspace` and every registered target.
C5_UnknownRootIff ==
  last.check = "root" =>
    LET kw == LastParsed.keyword
        unknown == WithTemplate(last.added, MsgUnknownRoot)
    IN  /\ unknown # {} <=> (kw # workspace /\ kw \notin DOMAIN registry.targets)
        /\ \A k \in unknown :
             LET d == last.added[k]
             IN  /\ d.severity = "Error"
                 /\ d.range.start = [line |-> LastLineNumber,
                                     character |-> LastParsed.indent]
                 /\ d.range.end = [line |-> LastLineNumber,
                                   character |-> LastParsed.indent + Len(kw)]
                 /\ d.message.subject = kw
                 /\ Includes(d.message.list, workspace)
                 /\ \A t \in DOMAIN registry.targets :
                      Includes(d.message.list, t)

\* What C6 says of a line reached in the context `top` with keyword kw.
NotAllowedIff(top, kw) ==
  LET refused == WithTemplate(last.added, MsgNotAllowed)
  IN  /\ refused # {} <=> ~AllowedBy(top, kw)
      /\ \A k \in refused :
           /\ last.added[k].severity = "Error"
           /\ last.added[k].message.subject = kw
           /\ last.added[k].message.elementType = top.elementType
           /\ last.added[k].message.list = top.allowedChildren

\* C6 (as stated): a bare child line, or an indented element declaration,
\* reached with a non-empty stack yields a 'not allowed in' Error exactly when
\* the top frame allows neither its keyword nor `*`; the message names the
\* keyword, the frame's elementType and its whole allowedChildren list.
C6_Original ==
  ( /\ last.depthBefore > 0
    /\ \/ last.shape \in {"child", "namespace"}
       \/ last.shape = "element" /\ Run(LastLine, 1, WhiteSpace) >= 1 )
  => NotAllowedIff(TopBefore, LastParsed.keyword)

\* C6 (amended): the same, for a bare child line or an element declaration
\* indented by two or more whitespace characters.
C6_NotAllowedIff ==
  ( /\ last.depthBefore > 0
    /\ \/ last.shape \in {"child", "namespace"}
       \/ last.shape = "element" /\ Run(LastLine, 1, WhiteSpace) >= 2 )
  => NotAllowedIff(TopBefore, LastParsed.keyword)

\* C6 witness: an element declaration indented by two characters is refused
\* by the frame it is reached in.
C6_Witness ==
  /\ last.shape = "element" /\ last.depthBefore > 0
  /\ Run(LastLine, 1, WhiteSpace) >= 2
  /\ ~AllowedBy(TopBefore, LastParsed.keyword)
  /\ WithTemplate(last.added, MsgNotAllowed) # {}

\* The characters a name token is made of: anything but white space and the
\* opening brace.
TokenChar ==
  (Letter \cup Digit \cup {"_", "-", "[", "]", "}", "/", ".", ":"}) \ {"{"}

\* A line read as `keyword name`: indentation, a keyword, white space and a
\* name token, whatever characters the name token is made of.
Tokens(line) ==
  LET e == ItemEnds(line, <<Many(WhiteSpace), Many(IdentChar),
                            Many(WhiteSpace), Many(TokenChar)>>)
  IN  [declaration |-> /\ e[2] > e[1] /\ line[e[1]] \in Letter
                       /\ e[3] > e[2] /\ e[4] > e[3],
       nameStart |-> e[3] - 1,
       nameEnd |-> e[4] - 1,
       name |-> SubSeq(line, e[3], e[4] - 1)]

\* The reading of each line of the pool, computed once.
TokensOf == [line \in LinePool |-> Tokens(line)]

\* C7: a declaration whose name token has a character outside letters,
\* digits, `_` and `-`, or does not start with a letter, yields exactly one
\* 'Invalid element name' Error, anchored to the span of that token.
C7_InvalidNameReported ==
  ( /\ last.shape \notin {"none", "skip", "close"}
    /\ TokensOf[LastLine].declaration
    /\ ~NamePatternTest(TokensOf[LastLine].name) )
  => LET invalid == WithTemplate(last.added, MsgInvalidName)
     IN  /\ Cardinality(invalid) = 1
         /\ \A k \in invalid :
              /\ last.added[k].severity = "Error"
              /\ last.added[k].range.start =
                   [line |-> LastLineNumber,
                    character |-> TokensOf[LastLine].nameStart]
              /\ last.added[k].range.end =
                   [line |-> LastLineNumber,
                    character |-> TokensOf[LastLine].nameEnd]

\* C8: a declaration named with a reserved word yields a reserved-name
\* Error at every nesting depth, as an element declaration and as a bare
\* child line alike.
C8_ReservedNameAlwaysReported ==
  (last.shape \in DeclShapes /\ Includes(reservedNames, LastParsed.name))
  => WithTemplate(last.added, MsgReserved) # {}

\* C9: an element declaration named `import` yields exactly one
\* reserved-name Error for `import`, whatever its keyword.
C9_ImportIsReserved ==
  (last.shape = "element" /\ LastParsed.name = <<"i", "m", "p", "o", "r", "t">>)
  => LET reserved == WithTemplate(last.added, MsgReserved)
     IN  /\ Cardinality(reserved) = 1
         /\ \A k \in reserved :
              /\ last.added[k].severity = "Error"
              /\ last.added[k].message.subject = LastParsed.name

\* The last character of a trimmed line is an opening brace.
TrailingBrace(line) ==
  Trim(line) # <<>> /\ Trim(line)[Len(Trim(line))] = "{"

\* The opening brace comes right after the token the declaration pattern
\* reads last (the name of an element declaration, the identifier of a bare
\* child), white space apart.
BraceAfterToken(line) ==
  LET c == Classified[line]
      afterKeyword == c.indent + Len(c.keyword) + 1
      afterToken ==
        IF c.shape = "element"
        THEN afterKeyword + Run(line, afterKeyword, WhiteSpace) + Len(c.name)
        ELSE c.indent + c.tokenLen + 1
      brace == afterToken + Run(line, afterToken, WhiteSpace)
  IN  brace <= Len(line) /\ line[brace] = "{"

\* Both readings of "opens a body" for each line of the pool, computed once:
\* the brace after the token of a declaration, the trailing brace.
Opens ==
  [line \in LinePool |->
    <<Classified[line].shape \in DeclShapes /\ BraceAfterToken(line),
      TrailingBrace(line)>>] @@ <<>>

\* A line of the pool that trims to `}`, computed once.
ClosingBrace == [line \in LinePool |-> Trim(line) = <<"}">>] @@ <<>>

\* The depth after the first k lines of ls, counting a frame for each
\* declaration line that opens a body and removing one for each `}` line that
\* finds one.
RECURSIVE DepthWhere(_, _, _, _)
DepthWhere(ls, k, trailing, sofar) ==
  IF k > Len(ls) THEN sofar
  ELSE LET c == Classified[ls[k]]
           opens == Opens[ls[k]][IF trailing THEN 2 ELSE 1]
       IN  DepthWhere(ls, k + 1, trailing,
             IF c.shape \in DeclShapes /\ opens THEN sofar + 1
             ELSE IF c.shape = "close" /\ sofar > 0 THEN sofar - 1
             ELSE sofar)

\* What C10 says of the last line and of the depth reached, for a given
\* reading of "opens a body".
FramesFollow(trailing) ==
  /\ last.shape # "none" =>
       /\ Len(contextStack) = last.depthBefore + 1
            <=> /\ last.shape \in DeclShapes
                /\ Opens[LastLine][IF trailing THEN 2 ELSE 1]
       /\ Len(contextStack) < last.depthBefore
            => /\ ClosingBrace[LastLine]
               /\ Len(contextStack) = last.depthBefore - 1
       /\ (ClosingBrace[LastLine] /\ last.depthBefore > 0)
            => Len(contextStack) = last.depthBefore - 1
  /\ Len(contextStack) = DepthWhere(lines, 1, trailing, 0)

PushedFrame == contextStack[Len(contextStack)]

\* A keyword with a registry entry of its own.
Registered(reg, keyword) ==
  \/ keyword = workspace
  \/ keyword \in DOMAIN reg.targets
  \/ keyword \in DOMAIN reg.namespaces

\* C11: the frame pushed for a keyword k has all registered target names
\* and mode markup if k is `workspace`; else the target's allowedChildren and
\* mode if k is a registered target; else the namespace's allowedChildren and
\* mode markup if k is a registered namespace; else [`*`] and mode markup.
C11_FrameResolvedInOrder ==
  last.pushed =>
    LET k == LastParsed.keyword
        f == PushedFrame
    IN  /\ f.elementType = k
        /\ IF k = workspace
           THEN /\ f.allowedChildren = registry.targetKeys
                /\ f.mode = "markup"
           ELSE IF k \in DOMAIN registry.targets
           THEN /\ f.allowedChildren = registry.targets[k].allowedChildren
                /\ f.mode = registry.targets[k].mode
           ELSE IF k \in DOMAIN registry.namespaces
           THEN /\ f.allowedChildren = registry.namespaces[k].allowedChildren
                /\ f.mode = "markup"
           ELSE /\ f.allowedChildren = <<Wildcard>>
                /\ f.mode = "markup"

\* C12: a declaration whose keyword has no registry entry, reached under a
\* frame that allows `*`, yields no 'not allowed in' Error; and when the frame
\* on top was itself pushed for such a keyword under a frame that allows `*`,
\* the declaration directly inside it yields none either.
C12_WildcardIsInherited ==
  (last.shape \in DeclShapes /\ last.depthBefore > 0) =>
    /\ ( /\ ~Registered(registry, LastParsed.keyword)
         /\ Includes(TopBefore.allowedChildren, Wildcard) )
       => WithTemplate(last.added, MsgNotAllowed) = {}
    /\ ( /\ last.depthBefore > 1
         /\ ~Registered(registry, TopBefore.elementType)
         /\ Includes(StackBefore[Len(StackBefore) - 1].allowedChildren,
                     Wildcard) )
       => WithTemplate(last.added, MsgNotAllowed) = {}

\* C13: an Error stops nothing: while lines remain the loop takes the next
\* one whatever has been reported, and a declaration that opens a body pushes
\* exactly one frame, resolved from its own keyword, whether or not the
\* declaration itself was reported.
C13_ErrorsAreNotFatal ==
  /\ (pc = "loop" /\ Len(lines) < MaxLines) => ENABLED LoopIteration
  /\ (last.shape \in DeclShapes /\ Opens[LastLine][1]) =>
       /\ Len(contextStack) = last.depthBefore + 1
       /\ PushedFrame =
            [elementType |-> LastParsed.keyword,
             elementName |-> LastParsed.name,
             allowedChildren |->
               ResolveContext(registry, LastParsed.keyword).allowedChildren,
             mode |-> ResolveContext(registry, LastParsed.keyword).mode,
             line |-> LastLineNumber]
  /\ \A k \in 1..Len(diagnostics) :
       diagnostics[k].range.start.line < Len(lines)

\* C13 witness: the first line was reported as an Error, and a later line,
\* reported as well, has pushed its frame, with the loop still running.
C13_Witness ==
  /\ pc = "loop" /\ Len(lines) = 2
  /\ \E k \in Errors(diagnostics) : diagnostics[k].range.start.line = 0
  /\ Errors(last.added) # {}
  /\ Len(contextStack) = last.depthBefore + 1
  /\ ENABLED LoopIteration

CommentLine == <<"/", "/", " ", "c", " ", "{">>

\* The lines ls with every `}` line that finds the stack empty replaced by a
\* comment line.
WithoutStrayCloses(reg, ls) ==
  [k \in 1..Len(ls) |->
    IF ClosingBrace[ls[k]] /\ FreshRun(reg, ls, k - 1).contextStack = <<>>
    THEN CommentLine
    ELSE ls[k]]

\* C14: a `}` line reached with an empty stack leaves the stack empty and
\* reports nothing, and the lines after it are validated as they would be
\* had that line been a comment: same diagnostics, same stack.
C14_StrayCloseIsIgnored ==
  /\ (last.shape # "none" /\ ClosingBrace[LastLine] /\ last.depthBefore = 0)
       => (contextStack = <<>> /\ last.added = <<>>)
  /\ LET fresh == FreshRun(registry, WithoutStrayCloses(registry, lines),
                           Len(lines))
     IN  diagnostics = fresh.diagnostics /\ contextStack = fresh.contextStack

\* C14 witness: a `}` line found the stack empty and the bare child line
\* after it was reported as being outside of any parent context.
C14_Witness ==
  /\ Len(lines) = 3 /\ ClosingBrace[lines[2]]
  /\ FreshRun(registry, lines, 1).contextStack = <<>>
  /\ last.shape = "child"
  /\ WithTemplate(last.added, MsgUnexpectedChild) # {}

\* A blank line, or a line whose trimmed text starts with `//`.
BlankOrComment(line) ==
  Trim(line) = <<>> \/ StartsWith(Trim(line), <<"/", "/">>)

\* C15: a blank line, or a line whose trimmed text starts with `//`, leaves
\* the context stack and the diagnostic list as they were, braces in it or
\* not; a document made only of such lines yields no diagnostic.
C15_BlankAndCommentLinesAreNoOps ==
  [][ (Len(lines') = Len(lines) + 1 /\ BlankOrComment(lines'[Len(lines')]))
      => /\ contextStack' = contextStack
         /\ diagnostics' = diagnostics
         /\ (\A k \in 1..Len(lines) : BlankOrComment(lines[k]))
              => diagnostics' = <<>> ]_vars

\* C15 witness: a comment line holding a brace was read with a frame open
\* and a diagnostic already reported.
C15_Witness ==
  /\ last.shape = "skip" /\ last.depthBefore > 0
  /\ \E k \in 1..Len(LastLine) : LastLine[k] = "{"
  /\ diagnostics # <<>> /\ Len(contextStack) = last.depthBefore

\* A kind that an allowedChildren list names and that is a key of neither
\* targets nor namespaces.
Dangling(reg, kind) ==
  /\ \/ \E t \in DOMAIN reg.targets :
          Includes(reg.targets[t].allowedChildren, kind)
     \/ \E n \in DOMAIN reg.namespaces :
          Includes(reg.namespaces[n].allowedChildren, kind)
  /\ kind # Wildcard
  /\ kind \notin DOMAIN reg.targets
  /\ kind \notin DOMAIN reg.namespaces

\* C20: a declaration whose keyword is a dangling kind of the registry and
\* that opens a body is given the frame of an unrecognized keyword:
\* allowedChildren [`*`], mode markup.
C20_DanglingKindGetsWildcardFrame ==
  (last.pushed /\ Dangling(registry, LastParsed.keyword)) =>
    /\ PushedFrame.elementType = LastParsed.keyword
    /\ PushedFrame.allowedChildren = <<Wildcard>>
    /\ PushedFrame.mode = "markup"

\* ------------------------------------------------------- the registry loader
\* existsSync(path), then readFileSync and JSON.parse without an exception.
Loads(content) == content \notin {"missing", "corrupt"}

\* loadRegistry that gives up at the first candidate it cannot read or parse.
LoadRegistry_NoCatch(cache, fs) ==
  IF cache # "null"
  THEN [threw |-> FALSE, value |-> cache, cache |-> cache, reads |-> {}]
  ELSE LET hits == {i \in Candidates : fs[i] # "missing"}
       IN  IF hits = {} \/ ~Loads(fs[CHOOSE i \in hits : \A j \in hits : i <= j])
           THEN [threw |-> TRUE, value |-> "null", cache |-> cache,
                 reads |-> {i \in hits : \A j \in hits : i <= j}]
           ELSE LET hit == CHOOSE i \in hits : \A j \in hits : i <= j
                IN  [threw |-> FALSE, value |-> fs[hit], cache |-> fs[hit],
                     reads |-> {hit}]

\* loadRegistry that remembers a failed search and does not search again.
LoadRegistry_CachesFailure(cache, fs) ==
  IF cache # "null"
  THEN [threw |-> cache = "failed", value |-> IF cache = "failed" THEN "null"
                                              ELSE cache,
        cache |-> cache, reads |-> {}]
  ELSE LET good == {i \in Candidates : fs[i] \notin {"missing", "corrupt"}}
       IN  IF good = {}
           THEN [threw |-> TRUE, value |-> "null", cache |-> "failed",
                 reads |-> {i \in Candidates : fs[i] # "missing"}]
           ELSE LET hit == CHOOSE i \in good : \A j \in good : i <= j
                IN  [threw |-> FALSE, value |-> fs[hit], cache |-> fs[hit],
                     reads |-> {i \in 1..hit : fs[i] # "missing"}]

\* loadRegistry: the cached value if it is truthy; else the candidates in
\* order, the first that exists, reads and parses being cached and returned
\* (the value of the JSON text `null` is JavaScript's null, the empty cache);
\* else the error "Could not load Z language registry".  reads are the
\* candidates handed to readFileSync.
LoadRegistry(cache, fs) ==
  IF cache # "null"
  THEN [threw |-> FALSE, value |-> cache, cache |-> cache, reads |-> {}]
  ELSE LET good == {i \in Candidates : Loads(fs[i])}
       IN  IF good = {}
           THEN [threw |-> TRUE, value |-> "null", cache |-> cache,
                 reads |-> {i \in Candidates : fs[i] # "missing"}]
           ELSE LET hit == CHOOSE i \in good : \A j \in good : i <= j
                IN  [threw |-> FALSE, value |-> fs[hit], cache |-> fs[hit],
                     reads |-> {i \in 1..hit : fs[i] # "missing"}]

\* The effect of one loadRegistry call on the cache and on the history.
Loading(r) ==
  /\ cachedRegistry' = r.cache
  /\ loaded' = [called |-> TRUE, threw |-> r.threw, value |-> r.value,
                reads |-> r.reads, retry |-> loaded.threw]
  /\ first' = IF first = "none" /\ ~r.threw THEN r.value ELSE first

\* A call of loadRegistry from anywhere in the process.
loadRegistry ==
  /\ Loading(LoadRegistry(cachedRegistry, files))
  /\ UNCHANGED <<files, text, returned, parserVars, serverVars>>

\* The environment creates, replaces, damages or removes a candidate file.
WriteFile ==
  /\ \E i \in Candidates, c \in FileContents :
       /\ c # files[i]
       /\ files' = [files EXCEPT ![i] = c]
  /\ UNCHANGED <<cachedRegistry, loaded, first, text, returned, parserVars, serverVars>>

\* A process with any candidate files in place, before the first call.
LoaderInit ==
  /\ registry = ShippedRegistry
  /\ pc = "idle"
  /\ lines = <<>>
  /\ contextStack = <<>>
  /\ diagnostics = <<>>
  /\ result = <<>>
  /\ dirty = FALSE
  /\ last = NoLine
  /\ files \in [Candidates -> FileContents]
  /\ cachedRegistry = "null"
  /\ loaded = NotCalled
  /\ first = "none"
  /\ text = <<>>
  /\ returned = NotReturned
  /\ ServerAtRest

LoaderNext == loadRegistry \/ WriteFile

LoaderSpec == LoaderInit /\ [][LoaderNext]_vars

\* C18: once a loadRegistry call has returned, every later call returns that
\* same value and hands no candidate file to readFileSync, whatever has
\* happened to the files since.  (In LoaderSpec the steps that leave files
\* alone are the loadRegistry calls.)
C18_FirstLoadWins ==
  [][ (files' = files /\ first # "none")
      => /\ ~loaded'.threw
         /\ loaded'.value = first
         /\ loaded'.reads = {} ]_vars

\* C19: with an empty cache, loadRegistry returns the content of the first
\* candidate, in the order of possiblePaths, that exists, reads and parses;
\* candidates that are missing or cannot be read or parsed are passed over;
\* it throws only when no candidate is left.
C19_FirstUsableCandidate ==
  [][ (files' = files /\ cachedRegistry = "null")
      => LET usable == {i \in Candidates : files[i] \notin {"missing", "corrupt"}}
         IN  /\ loaded'.called
             /\ loaded'.threw <=> usable = {}
             /\ \A i \in usable :
                  (\A j \in usable : i <= j) => loaded'.value = files[i]
             /\ ~loaded'.threw => cachedRegistry' = loaded'.value ]_vars

\* C19 witness: the call passed over a candidate that could not be parsed and
\* a missing one, and returned the embedded fallback.
C19_Witness ==
  /\ loaded.called /\ ~loaded.threw
  /\ files[1] = "corrupt" /\ files[2] = "missing" /\ files[3] = "small"
  /\ loaded.value = "small" /\ loaded.reads = {1, 3}
  /\ cachedRegistry = "small"

\* ------------------------------------------------- validateZLanguageText
MaxTextLines == 2

\* The lines a text given to validateZLanguageText is made of.
TextPool ==
  {
    <<"/","/"," ","T","O","D","O">>,                     \* // TODO
    <<"T","O","D","O"," ","T","O","D","O">>,             \* TODO TODO
    <<" "," "," "," ","h","o","m","e">>,                 \*     home
    <<"n","e","x","t"," ","A","p","p"," ","{"," ","/","/"," ","T","O","D","O">>
                                                         \* next App { // TODO
  }

Texts == UNION {[1..n -> TextPool] : n \in 0..MaxTextLines}

TODO == <<"T", "O", "D", "O">>

MsgTodo == "Reminder: TODO found"

\* The zero-based positions at which sub occurs in s.
Occurrences(s, sub) ==
  {p \in 0..(Len(s) - Len(sub)) : SubSeq(s, p + 1, p + Len(sub)) = sub}

\* indexOf that finds the last occurrence.
IndexOf_Last(s, sub) ==
  IF Occurrences(s, sub) = {} THEN -1
  ELSE CHOOSE p \in Occurrences(s, sub) : \A q \in Occurrences(s, sub) : q <= p

\* String.prototype.indexOf
IndexOf(s, sub) ==
  IF Occurrences(s, sub) = {} THEN -1
  ELSE CHOOSE p \in Occurrences(s, sub) : \A q \in Occurrences(s, sub) : p <= q

\* The Warning pushed for line i (zero-based) with TODO found at todoIdx.
TodoWarning(i, todoIdx) ==
  [severity |-> "Warning",
   range |-> [start |-> [line |-> i, character |-> todoIdx],
              end |-> [line |-> i, character |-> todoIdx + 4]],
   message |-> Message(MsgTodo, <<>>, <<>>, <<>>),
   source |-> "z-lsp"]

\* The loop over the lines that both the try block and the catch block run.
TodoScan(ls) ==
  LET found == SelectSeq([k \in 1..Len(ls) |-> k],
                         LAMBDA k : IndexOf(ls[k], TODO) # -1)
  IN  [j \in 1..Len(found) |->
         TodoWarning(found[j] - 1, IndexOf(ls[found[j]], TODO))]

\* The registry object that a loaded value stands for.
RegistryOf(value) ==
  IF value = "shipped" THEN ShippedRegistry ELSE SmallRegistry

\* this.registry when loadRegistry returned null: every use of it is
\* guarded by DereferencesRegistry, so none of its fields is ever read.
NoRegistry == [targetKeys |-> <<>>, targets |-> <<>>, namespaces |-> <<>>]

\* validateZMarkup reads `this.registry.targets` for ls: some line gets the
\* root-level check or pushes a frame.  With a null registry that read is a
\* TypeError, and no frame is ever pushed before it.
DereferencesRegistry(ls) ==
  \E k \in 1..Len(ls) :
    LET c == Classify(ls[k])
    IN  /\ c.shape \in DeclShapes
        /\ \/ c.openBrace
           \/ c.shape = "element" /\ IndentLevel(c.indent) = 0

\* new ZMarkupParser().validateZMarkup(text) for the registry reg: the
\* diagnostics after the last line of ls.
markupDiagnostics(reg, ls) ==
  LET after[k \in 0..Len(ls)] ==
        IF k = 0 THEN [contextStack |-> <<>>, diagnostics |-> <<>>]
        ELSE [contextStack |->
                validateLine(reg, after[k - 1].contextStack, ls[k], k - 1)
                  .contextStack,
              diagnostics |->
                after[k - 1].diagnostics \o
                validateLine(reg, after[k - 1].contextStack, ls[k], k - 1)
                  .added]
  IN  after[Len(ls)].diagnostics

\* The try block with the scan placed before the parser's diagnostics.
TryBlock_ScanFirst(ls, load) ==
  IF load.threw \/ (load.value = "null" /\ DereferencesRegistry(ls))
  THEN [threw |-> TRUE, diagnostics |-> <<>>]
  ELSE [threw |-> FALSE,
        diagnostics |->
          TodoScan(ls) \o
          markupDiagnostics(IF load.value = "null" THEN NoRegistry
                            ELSE RegistryOf(load.value), ls)]

\* The try block: construct a parser, validate, copy its diagnostics, scan.
TryBlock(ls, load) ==
  IF load.threw \/ (load.value = "null" /\ DereferencesRegistry(ls))
  THEN [threw |-> TRUE, diagnostics |-> <<>>]
  ELSE [threw |-> FALSE,
        diagnostics |->
          markupDiagnostics(IF load.value = "null" THEN NoRegistry
                            ELSE RegistryOf(load.value), ls)
          \o TodoScan(ls)]

\* A try statement whose catch block is missing.
TryCatch_Rethrow(ls, body) == body

\* try { ... } catch (error) { the scan alone }
TryCatch(ls, body) ==
  IF body.threw
  THEN [threw |-> FALSE, diagnostics |-> TodoScan(ls)]
  ELSE body

\* What validateZLanguageText returns for each text and each outcome of the
\* constructor's loadRegistry call, computed once (as an explicit table: the
\* empty function adds nothing to it).
LoadOutcomes ==
  {[threw |-> TRUE, value |-> "null"]} \cup
  {[threw |-> FALSE, value |-> v] : v \in {"null", "shipped", "small"}}

Outcome ==
  [call \in Texts \X LoadOutcomes |->
    TryCatch(call[1], TryBlock(call[1], call[2]))] @@ <<>>

validateZLanguageText ==
  /\ \E ls \in Texts :
       LET r == LoadRegistry(cachedRegistry, files)
           out == Outcome[<<ls, [threw |-> r.threw, value |-> r.value]>>]
       IN  /\ Loading(r)
           /\ text' = ls
           /\ returned' = [called |-> TRUE, threw |-> out.threw,
                           loadThrew |-> r.threw,
                           diagnostics |-> out.diagnostics]
  /\ UNCHANGED <<files, parserVars, serverVars>>

\* Other callers of loadRegistry share the cache with the validation.
TextNext == validateZLanguageText \/ loadRegistry

TextSpec == LoaderInit /\ [][TextNext]_vars

\* The lines of ls, zero-based, in which TODO occurs.
TodoLines(ls) == {k - 1 : k \in {j \in 1..Len(ls) : Occurrences(ls[j], TODO) # {}}}

Sources(ds) == {ds[k].source : k \in 1..Len(ds)}

\* C16: validateZLanguageText never throws, and when loadRegistry throws it
\* returns no `z-markup` diagnostic and exactly the marker warnings of the
\* text: one `z-lsp` Warning for each line holding TODO, and nothing else.
C16_NeverThrows ==
  returned.called =>
    /\ ~returned.threw
    /\ returned.loadThrew =>
         /\ "z-markup" \notin Sources(returned.diagnostics)
         /\ Len(returned.diagnostics) = Cardinality(TodoLines(text))
         /\ \A k \in 1..Len(returned.diagnostics) :
              /\ returned.diagnostics[k].severity = "Warning"
              /\ returned.diagnostics[k].source = "z-lsp"
         /\ {returned.diagnostics[k].range.start.line :
                k \in 1..Len(returned.diagnostics)} = TodoLines(text)

\* C16 witness: no registry could be loaded for a text with a line that a
\* parser would have reported, and the marker warning was returned.
C16_Witness ==
  /\ returned.called /\ returned.loadThrew /\ ~returned.threw
  /\ Len(text) = 2 /\ text[1] = <<"T","O","D","O"," ","T","O","D","O">>
  /\ returned.diagnostics # <<>>

\* The marker warnings among ds, in order.
Markers(ds) == SelectSeq(ds, LAMBDA d : d.source = "z-lsp")

\* The marker warnings of ds are exactly one Warning on each of the spans
\* (<<line, start character>> pairs, each four characters long).
MarkersAre(ds, spans) ==
  /\ Len(Markers(ds)) = Cardinality(spans)
  /\ {<<Markers(ds)[k].range.start.line,
         Markers(ds)[k].range.start.character>> :
        k \in 1..Len(Markers(ds))} = spans
  /\ \A k \in 1..Len(Markers(ds)) :
       LET d == Markers(ds)[k]
       IN  /\ d.severity = "Warning"
           /\ d.range.end.line = d.range.start.line
           /\ d.range.end.character = d.range.start.character + 4

\* The leftmost position at which sub occurs in s.
FirstOccurrence(s, sub) ==
  CHOOSE p \in Occurrences(s, sub) : \A q \in Occurrences(s, sub) : p <= q

\* C17 (as stated): the scan emits one Warning per occurrence of TODO in the
\* document, several occurrences on one line included, each on the
\* 4-character span of its occurrence, whether or not the registry loaded.
C17_Original ==
  returned.called =>
    MarkersAre(returned.diagnostics,
               UNION {{<<k - 1, p>> : p \in Occurrences(text[k], TODO)} :
                        k \in 1..Len(text)})

\* C17 (amended): the scan emits one Warning per line in which TODO occurs,
\* on the 4-character span of the first occurrence in that line, after the
\* structural diagnostics and in line order, whether or not the registry
\* loaded.
C17_OneWarningPerLine ==
  returned.called =>
    /\ MarkersAre(returned.diagnostics,
                  {<<k - 1, FirstOccurrence(text[k], TODO)>> :
                     k \in {j \in 1..Len(text) :
                              Occurrences(text[j], TODO) # {}}})
    /\ \A j, k \in 1..Len(returned.diagnostics) :
         (j < k /\ returned.diagnostics[j].source = "z-lsp") =>
           /\ returned.diagnostics[k].source = "z-lsp"
           /\ returned.diagnostics[j].range.start.line
                < returned.diagnostics[k].range.start.line

\* C17 witness: with a registry loaded, a text whose first line holds TODO
\* twice and whose second holds it once got a structural Error and two
\* marker warnings.
C17_Witness ==
  /\ returned.called /\ ~returned.loadThrew
  /\ Len(text) = 2
  /\ Cardinality(Occurrences(text[1], TODO)) = 2
  /\ Occurrences(text[2], TODO) # {}
  /\ "z-markup" \in Sources(returned.diagnostics)
  /\ Len(Markers(returned.diagnostics)) = 2

\* ------------------------------------------------------------------- C21
\* The line without its square brackets: the bare twin of a dynamic route.
Unbracketed(line) == SelectSeq(line, LAMBDA c : c \notin {"[", "]"})

IsDynamicRoute(line) == \E k \in 1..Len(line) : line[k] = "["

\* What a diagnostic says, its place in the text left out.
Faces(ds) == [k \in 1..Len(ds) |-> <<ds[k].message, ds[k].severity>>]

\* C21: a dynamic-route child [name] is validated and pushed exactly like the
\* bare child name: on the stack that the line found, the line without its
\* brackets yields diagnostics with the same messages and severities and
\* leaves the same context stack, the frame pushed for an opening brace
\* included.
C21_DynamicRouteLikeBare ==
  (lines # <<>> /\ IsDynamicRoute(LastLine) /\ last.shape = "child") =>
    LET bare == validateLine(registry, StackBefore, Unbracketed(LastLine),
                             LastLineNumber)
    IN  /\ bare.shape = "child"
        /\ Faces(last.added) = Faces(bare.added)
        /\ contextStack = bare.contextStack

\* A dynamic route refused by its parent and pushed all the same.
C21_Witness ==
  /\ lines # <<>>
  /\ IsDynamicRoute(LastLine)
  /\ last.shape = "child"
  /\ last.pushed
  /\ last.added # <<>>
  /\ StackBefore # <<>>

\* ------------------------------------------------------------------- C22
\* Where the first token of a line starts and ends as it is written, square
\* brackets included, and where it would end if it were as long as the
\* keyword.
SpanOf ==
  [line \in ProbePool |->
    LET lead == Run(line, 1, WhiteSpace)
    IN  [start |-> lead,
         written |-> lead + Run(line, lead + 1, IdentChar \cup {"[", "]"}),
         keyword |-> IF Classified[line].shape \in DeclShapes
                     THEN lead + Len(Classified[line].keyword)
                     ELSE lead]] @@ <<>>

\* The line a diagnostic is anchored to.
LineOf(d) == lines[d.range.start.line + 1]

\* C22 as stated: every diagnostic starts after the leading white space of
\* its line and ends as many characters later as the keyword is long, the
\* keyword of a dynamic route being the name without its brackets.
C22_Original ==
  \A k \in 1..Len(diagnostics) :
    /\ diagnostics[k].range.start.character = SpanOf[LineOf(diagnostics[k])].start
    /\ diagnostics[k].range.end.character = SpanOf[LineOf(diagnostics[k])].keyword

\* C22: every diagnostic starts after the leading white space of its line
\* and ends where the first token of the line ends as written: the keyword
\* of an element declaration or bare child, the bracketed name of a dynamic
\* route.
C22_RangeCoversWrittenToken ==
  \A k \in 1..Len(diagnostics) :
    /\ diagnostics[k].range.start.character = SpanOf[LineOf(diagnostics[k])].start
    /\ diagnostics[k].range.end.character = SpanOf[LineOf(diagnostics[k])].written

\* Diagnostics on a dynamic route, on a bare child and on an element
\* declaration in one text.
C22_Witness ==
  /\ \E k \in 1..Len(diagnostics) : IsDynamicRoute(LineOf(diagnostics[k]))
  /\ \E k \in 1..Len(diagnostics) :
       /\ Classified[LineOf(diagnostics[k])].shape = "child"
       /\ ~IsDynamicRoute(LineOf(diagnostics[k]))
  /\ \E k \in 1..Len(diagnostics) :
       Classified[LineOf(diagnostics[k])].shape = "element"

\* ------------------------------------------------------------------- C23
\* The frames of a stack hold the lists that the registry holds for their
\* element types.
FramesShare(reg, stack) ==
  \A k \in 1..Len(stack) :
    stack[k].allowedChildren =
      ResolveContext(reg, stack[k].elementType).allowedChildren

TextShape == [line \in TextPool |-> Classify(line).shape] @@ <<>>

\* The diagnostic d lies within one line of the text ls, start before end.
OnOneLine(d, ls) ==
  /\ d.range.start.line = d.range.end.line
  /\ d.range.start.line \in 0..(Len(ls) - 1)
  /\ d.range.start.character <= d.range.end.character

\* C24: of the diagnostics that validateZLanguageText returns, those of the
\* marker scan are Warnings of source `z-lsp` on a line holding the marker,
\* those of the structural validator are Errors of source `z-markup` on the
\* line of a declaration, and each lies on one line of the text, counted
\* from zero, with its start character not after its end character.
C24_SeveritySourceAndLine ==
  returned.called =>
    \A k \in 1..Len(returned.diagnostics) :
      LET d == returned.diagnostics[k]
      IN  /\ OnOneLine(d, text)
          /\ IF d.message.template = MsgTodo
             THEN /\ d.severity = "Warning"
                  /\ d.source = "z-lsp"
                  /\ d.range.start.line \in TodoLines(text)
             ELSE /\ d.severity = "Error"
                  /\ d.source = "z-markup"
                  /\ TextShape[text[d.range.start.line + 1]] \in DeclShapes

\* A call that returned a structural Error and a marker Warning, the Error
\* on the second line.
C24_Witness ==
  /\ returned.called
  /\ \E k \in 1..Len(returned.diagnostics) :
       /\ returned.diagnostics[k].message.template # MsgTodo
       /\ returned.diagnostics[k].range.start.line = 1
       /\ returned.diagnostics[k].range.end.character > 0
  /\ \E k \in 1..Len(returned.diagnostics) :
       returned.diagnostics[k].message.template = MsgTodo

\* ------------------------------------------------------------------- C25
\* The diagnostics of ds anchored to a line before line k.
Below(ds, k) == SelectSeq(ds, LAMBDA d : d.range.start.line < k)

\* C25: for every k, a fresh parser validating the first k lines alone
\* reports exactly the diagnostics that the whole text has for lines before
\* k: later lines add, remove and change nothing on earlier lines.
C25_PrefixStable ==
  \A k \in 0..Len(lines) :
    FreshRun(registry, SubSeq(lines, 1, k), k).diagnostics
      = Below(diagnostics, k)

\* Two lines follow a line that was reported, and the last is reported too.
C25_Witness ==
  /\ Len(lines) = 3
  /\ \E k \in 1..Len(diagnostics) : diagnostics[k].range.start.line = 0
  /\ \E k \in 1..Len(diagnostics) : diagnostics[k].range.start.line = 2
  /\ contextStack # <<>>

\* ------------------------------------------------------------------- C26
\* The keyword may open a text: `workspace` or a target of the registry.
ValidRootKeyword(reg, keyword) ==
  keyword = workspace \/ keyword \in DOMAIN reg.targets

\* The last line was a child-shaped line met with an empty stack.
ChildAtEmptyStack ==
  lines # <<>> /\ last.shape = "child" /\ last.depthBefore = 0

NoParentTemplates == {MsgUnexpectedChild, MsgNoParent}

\* C26 as stated: a child-shaped line met with an empty stack is reported
\* for its missing parent exactly when its keyword is not a valid root
\* keyword.
C26_Original ==
  ChildAtEmptyStack =>
    ((Templates(last.added) \cap NoParentTemplates # {})
       <=> ~ValidRootKeyword(registry, LastParsed.keyword))

\* C26: a child-shaped line met with an empty stack yields exactly one
\* diagnostic, the Error 'Unexpected child element ... outside of any parent
\* context', whatever its keyword, a valid root keyword included.
C26_NoParentWhateverKeyword ==
  ChildAtEmptyStack =>
    /\ Len(last.added) = 1
    /\ last.added[1].severity = "Error"
    /\ last.added[1].message.template = MsgUnexpectedChild
    /\ last.added[1].message.subject = LastParsed.keyword

\* An indented bare target keyword is the first declaration of a text.
C26_Witness ==
  /\ ChildAtEmptyStack
  /\ ValidRootKeyword(registry, LastParsed.keyword)
  /\ last.added # <<>>

\* ------------------------------------------------------------------- C27
\* The first token of each probing line: the identifier characters that
\* follow its leading white space.
FirstTokenOf ==
  [line \in ProbePool |->
    LET lead == Run(line, 1, WhiteSpace)
    IN  SubSeq(line, lead + 1, lead + Run(line, lead + 1, IdentChar))] @@ <<>>

\* The last line began with a namespace keyword and met an empty stack.
NamespaceAtRoot ==
  /\ lines # <<>>
  /\ last.depthBefore = 0
  /\ FirstTokenOf[LastLine] \in DOMAIN registry.namespaces

\* C27: a line whose first token is a registered namespace keyword, met with
\* an empty context stack, yields an Error, with or without a name after the
\* keyword.
C27_NamespaceAtRootIsError ==
  NamespaceAtRoot => Errors(last.added) # {}

\* ------------------------------------------------------------------- C28
\* A line that is no blank line, comment or closing brace and has none of
\* the declaration shapes: it starts with a character that is neither a
\* letter nor white space (a digit, a quote, `@`), or with an unindented
\* identifier that no name follows.
NotADeclaration(line) ==
  LET e == ItemEnds(line, <<Many(IdentChar), Many(WhiteSpace)>>)
  IN  /\ Trim(line) # <<>>
      /\ ~StartsWith(Trim(line), <<"/", "/">>)
      /\ Trim(line) # <<"}">>
      /\ \/ line[1] \notin Letter \cup WhiteSpace
         \/ /\ line[1] \in Letter
            /\ \/ e[2] = e[1]
               \/ e[2] > Len(line)
               \/ line[e[2]] \notin Letter

NotADeclarationIn == [line \in ProbePool |-> NotADeclaration(line)] @@ <<>>

\* C28: reading a line that is no blank line, comment or closing brace and
\* has none of the declaration shapes changes neither the context stack nor
\* the list of diagnostics, even when the line ends with `{`.
C28_UnmatchedLinesAreNoOps ==
  [][(Len(lines') = Len(lines) + 1 /\ NotADeclarationIn[lines'[Len(lines')]])
       => (contextStack' = contextStack /\ diagnostics' = diagnostics)]_vars

\* Such a line, ending with `{`, was read when a frame was open and a
\* diagnostic had been reported.
C28_Witness ==
  /\ lines # <<>>
  /\ NotADeclarationIn[LastLine]
  /\ LastLine[Len(LastLine)] = "{"
  /\ last.shape = "unmatched"
  /\ contextStack # <<>>
  /\ diagnostics # <<>>

\* ------------------------------------------------------------------- C29
\* The last line declared `workspace` with a name and without indentation.
WorkspaceAtRoot ==
  /\ lines # <<>>
  /\ last.shape = "element"
  /\ Run(LastLine, 1, WhiteSpace) = 0
  /\ FirstTokenOf[LastLine] = workspace

RootTemplates == {MsgWorkspaceUnsupported, MsgUnknownRoot}

\* C29: a root-level `workspace` declaration gets no diagnostic of the root
\* check when the registry's targets contain `workspace`; when they do not,
\* it gets exactly one Error 'workspace is not supported' and no 'Unknown
\* root element'.
C29_WorkspaceAtRoot ==
  WorkspaceAtRoot =>
    IF workspace \in DOMAIN registry.targets
    THEN Templates(last.added) \cap RootTemplates = {}
    ELSE /\ Cardinality(WithTemplate(last.added, MsgWorkspaceUnsupported)) = 1
         /\ WithTemplate(last.added, MsgWorkspaceUnsupported)
              \subseteq Errors(last.added)
         /\ WithTemplate(last.added, MsgUnknownRoot) = {}

\* `workspace` declared for a registry whose targets do not contain it.
C29_Witness ==
  /\ WorkspaceAtRoot
  /\ workspace \notin DOMAIN registry.targets
  /\ last.added # <<>>
  /\ last.pushed

\* ------------------------------------------------------------------- C30
StructuralTemplates ==
  {MsgWorkspaceUnsupported, MsgUnknownRoot, MsgNoParent, MsgNotAllowed}

\* The keyword of the last line fails the check that its indentation selects:
\* at the root it is neither a supported `workspace` nor a target (nor a name
\* that every object has, which the lookup takes for a target); nested, there
\* is no parent or the parent allows neither the keyword nor `*`.
FailsItsCheck ==
  IF Run(LastLine, 1, WhiteSpace) < 2
  THEN /\ LastParsed.keyword \notin DOMAIN registry.targets
       /\ LastParsed.keyword \notin ObjectPrototypeKeys
  ELSE \/ StackBefore = <<>>
       \/ ~AllowedBy(TopBefore, LastParsed.keyword)

\* The last line declared an element with a reserved name and a keyword that
\* fails its check.
ReservedAndMisplaced ==
  /\ lines # <<>>
  /\ last.shape = "element"
  /\ Includes(reservedNames, LastParsed.name)
  /\ FailsItsCheck

\* C30: an element declaration with a reserved name and a keyword that fails
\* the root or the nested check yields exactly two Errors, the Error of the
\* name before the Error of the keyword, both on the same range.
C30_NameErrorThenStructuralError ==
  ReservedAndMisplaced =>
    /\ Len(last.added) = 2
    /\ Errors(last.added) = {1, 2}
    /\ last.added[1].message.template = MsgReserved
    /\ last.added[1].message.subject = LastParsed.name
    /\ last.added[2].message.template \in StructuralTemplates
    /\ last.added[1].range = last.added[2].range

\* A reserved name on a nested declaration that its parent refuses.
C30_Witness ==
  /\ ReservedAndMisplaced
  /\ Run(LastLine, 1, WhiteSpace) >= 2
  /\ StackBefore # <<>>
  /\ Len(last.added) = 2

\* ------------------------------------------------------------------- C31
\* The registry reg with the mode of every target replaced by f(mode).
WithModes(reg, f) ==
  [reg EXCEPT !.targets =
     [k \in DOMAIN reg.targets |->
        [reg.targets[k] EXCEPT !.mode = f[reg.targets[k].mode]]]]

\* Every mode exchanged for the other one, and every mode set to "code".
ModeChanges ==
  { [markup |-> "code", code |-> "markup"],
    [markup |-> "code", code |-> "code"] }

\* C31: a registry that differs from the parser's registry only in the mode
\* of its targets yields, for the lines read so far, the diagnostics that the
\* parser has.
C31_ModeIndependent ==
  \A f \in ModeChanges :
    FreshRun(WithModes(registry, f), lines, Len(lines)).diagnostics
      = diagnostics

\* A child was refused inside the body of a target, whose frame has another
\* mode under the changed registries.
C31_Witness ==
  /\ lines # <<>>
  /\ last.shape \in DeclShapes
  /\ last.depthBefore > 0
  /\ TopBefore.elementType \in DOMAIN registry.targets
  /\ WithTemplate(last.added, MsgNotAllowed) # {}
  /\ \A f \in ModeChanges :
       WithModes(registry, f).targets[TopBefore.elementType].mode
         # TopBefore.mode

\* ------------------------------------------------------------------- C32
\* The text ls without the closing-brace lines at its end.
WithoutTrailingCloses(ls) ==
  LET keep == {k \in 1..Len(ls) : Classified[ls[k]].shape # "close"}
  IN  SubSeq(ls, 1, IF keep = {} THEN 0
                    ELSE CHOOSE k \in keep : \A j \in keep : j <= k)

\* C32: what validateZMarkup returns for a text is what a fresh parser
\* reports for the text without the closing-brace lines at its end: scopes
\* left open at the end of the text are not reported.
C32_OpenScopesAreNotReported ==
  (pc = "idle" /\ lines # <<>>) =>
    result = FreshRun(registry, WithoutTrailingCloses(lines),
                      Len(WithoutTrailingCloses(lines))).diagnostics

\* A returned text that ends with a closing brace and leaves a scope open;
\* without its last line it leaves two open.
C32_Witness ==
  /\ pc = "idle"
  /\ Len(lines) = 3
  /\ last.shape = "close"
  /\ contextStack # <<>>
  /\ Len(WithoutTrailingCloses(lines)) = 2

\* ------------------------------------------------------------------- C33
\* C33: in the list that validateZLanguageText returns no `z-markup`
\* diagnostic follows a `z-lsp` warning, and of two diagnostics of the same
\* source the later one is not on an earlier line.
C33_StructuralBeforeMarkers ==
  returned.called =>
    \A i, j \in 1..Len(returned.diagnostics) :
      i < j =>
        LET a == returned.diagnostics[i]
            b == returned.diagnostics[j]
        IN  /\ a.source = "z-lsp" => b.source = "z-lsp"
            /\ a.source = b.source =>
                 a.range.start.line <= b.range.start.line

\* A structural diagnostic of the second line comes before the marker
\* warning of the first line.
C33_Witness ==
  /\ returned.called
  /\ Len(returned.diagnostics) >= 2
  /\ returned.diagnostics[1].source = "z-markup"
  /\ returned.diagnostics[1].range.start.line = 1
  /\ returned.diagnostics[2].source = "z-lsp"
  /\ returned.diagnostics[2].range.start.line = 0

\* ------------------------------------------------------------------- C34
\* Every frame has the list and the mode that the resolution of its element
\* type gives.
FramesResolved(reg, stack) ==
  \A k \in 1..Len(stack) :
    /\ stack[k].allowedChildren =
         ResolveContext(reg, stack[k].elementType).allowedChildren
    /\ stack[k].mode = ResolveContext(reg, stack[k].elementType).mode

\* The opening lines of the frames grow from the bottom to the top.
OpeningLinesIncrease(stack) ==
  \A j, k \in 1..Len(stack) : j < k => stack[j].line < stack[k].line

\* The stack `after` is `before`, or `before` without its top frame, or
\* `before` with one more frame on top.
TopOnly(before, after) ==
  \/ after = before
  \/ Len(before) > 0 /\ after = SubSeq(before, 1, Len(before) - 1)
  \/ Len(after) = Len(before) + 1
       /\ SubSeq(after, 1, Len(before)) = before

\* C34: after every step each frame has the allowedChildren and the mode
\* that the resolution of its elementType gives, the opening lines of the
\* frames increase strictly from the bottom to the top, and a step inside a
\* pass changes the stack at its top only.
C34_StackDiscipline ==
  [][ /\ FramesResolved(registry', contextStack')
      /\ OpeningLinesIncrease(contextStack')
      /\ (pc = "loop" /\ pc' = "loop")
           => TopOnly(contextStack, contextStack') ]_vars

\* A closing brace has removed the upper of two frames.
C34_Witness ==
  /\ pc = "loop"
  /\ last.shape = "close"
  /\ last.depthBefore = 2
  /\ Len(contextStack) = 1
  /\ contextStack[1].line = 0

\* --------------------------------------------------- the language server
\* The documents that the client opens and sends as full changes: their
\* characters, line feeds included.
Contents ==
  {
    <<>>,   \* the empty document
    <<"/","/"," ","c">>,   \* // c
    <<"n","e","x","t"," ","A","p","p"," ","{">>,   \* next App {
    <<"/","/"," ","c","\n","n","e","x","t"," ","A","p","p"," ","{">>,   \* // c\nnext App {
    <<"\n","\n","r","u","s","t"," ","L","i","b"," ","{">>,   \* \n\nrust Lib {
    <<"c","o","n","s","t"," ","x"," ","="," ","1">>,   \* const x = 1
    <<"n","e","x","t">>,   \* next
    <<" "," ","s","w","i","f","t"," ","A"," ","{","\n","}">>,   \*   swift A {\n}
    <<"R","o","u","t","e","s"," ","{","\n","n","e","x","t"," ","A"," ","{">>   \* Routes {\nnext A {
  }

\* The URIs of the documents.
Uris == {<<"a",".","z">>, <<"b",".","t","s">>}

\* The languageId constant z of configuration/languageIds.ts, and another id.
z == "z"
LanguageIds == {z, "typescript"}

\* String.prototype.endsWith
EndsWith(s, suffix) ==
  Len(s) >= Len(suffix)
    /\ SubSeq(s, Len(s) - Len(suffix) + 1, Len(s)) = suffix

\* String.prototype.trim applied to a whole document: line feeds are white
\* space too.
TrimContent(s) ==
  LET ws == WhiteSpace \cup {"\n"}
      lead == Run(s, 1, ws)
  IN  IF lead = Len(s) THEN <<>>
      ELSE LET final == CHOOSE e \in 1..Len(s) :
                         /\ s[e] \notin ws
                         /\ \A k \in (e + 1)..Len(s) : s[k] \in ws
           IN  SubSeq(s, lead + 1, final)

\* String.prototype.split('\n')
Split(s) ==
  LET breaks == {i \in 1..Len(s) : s[i] = "\n"}
      at(k) == IF k = 0 THEN 0
               ELSE IF k > Cardinality(breaks) THEN Len(s) + 1
               ELSE CHOOSE i \in breaks :
                      Cardinality({j \in breaks : j < i}) = k - 1
  IN  [k \in 1..(Cardinality(breaks) + 1) |->
         SubSeq(s, at(k - 1) + 1, at(k) - 1)]

zTargetKeywords ==
  << <<"w","o","r","k","s","p","a","c","e">>,
     <<"n","e","x","t">>,
     <<"s","w","i","f","t">>,
     <<"r","u","s","t">>,
     <<"t","a","u","r","i">>,
     <<"a","n","d","r","o","i","d">>,
     <<"h","a","r","m","o","n","y">>,
     <<"q","t">>,
     <<"j","a","v","a">>,
     <<"p","y","t","h","o","n">>,
     <<"b","a","s","h">> >>

\* The first line of ls that is neither blank nor a comment, trimmed; the
\* empty string if there is none.
FirstMeaningfulLine(ls) ==
  LET meaningful == {k \in 1..Len(ls) :
                       /\ Trim(ls[k]) # <<>>
                       /\ ~StartsWith(Trim(ls[k]), <<"/", "/">>)}
  IN  IF meaningful = {} THEN <<>>
      ELSE Trim(ls[CHOOSE k \in meaningful : \A j \in meaningful : k <= j])

StartsWithTargetKeyword(line) ==
  \E k \in 1..Len(zTargetKeywords) :
    StartsWith(line, zTargetKeywords[k] \o <<" ">>)

shouldUseZMarkupMode(content) ==
  IF TrimContent(content) = <<>>
       \/ StartsWith(TrimContent(content), <<"/", "/">>)
  THEN FALSE
  ELSE StartsWithTargetKeyword(
         FirstMeaningfulLine(Split(TrimContent(content))))

\* shouldUseZMarkupMode of each document, computed once.
UseMarkup == [c \in Contents |-> shouldUseZMarkupMode(c)] @@ <<>>

\* What validateZLanguageText returns for each document and each outcome of
\* loadRegistry, computed once.
DocumentOutcome ==
  [call \in Contents \X LoadOutcomes |->
    TryCatch(Split(call[1]), TryBlock(Split(call[1]), call[2]))] @@ <<>>

\* validateZDocument(uri, text): validateZLanguageText on the text; the
\* diagnostics it returns are published for the URI.
validateZDocument(content) ==
  LET r == LoadRegistry(cachedRegistry, files)
      out == DocumentOutcome[<<content, [threw |-> r.threw, value |-> r.value]>>]
  IN  /\ Loading(r)
      /\ text' = Split(content)
      /\ returned' = [called |-> TRUE, threw |-> out.threw,
                      loadThrew |-> r.threw,
                      diagnostics |-> out.diagnostics]

\* What the server did with a notification.
Handled(op, uri, change, content, asked, to) ==
  [op |-> op, uri |-> uri, change |-> change, content |-> content,
   asked |-> asked, markup |-> asked /\ UseMarkup[content], to |-> to]

\* didOpenTextDocument: a document of language z whose content asks for the
\* markup mode is validated by the server itself; every other document goes
\* to the TypeScript handler.
didOpenTextDocument ==
  \E uri \in Uris \ opened, languageId \in LanguageIds, content \in Contents :
    /\ opened' = opened \cup {uri}
    /\ IF languageId = z /\ UseMarkup[content]
       THEN /\ validateZDocument(content)
            /\ tsOpened' = tsOpened
            /\ sent' = Handled("open", uri, "full", content, TRUE, "z")
       ELSE /\ tsOpened' = tsOpened \cup {uri}
            /\ sent' = Handled("open", uri, "full", content,
                               languageId = z, "ts")
            /\ UNCHANGED <<cachedRegistry, loaded, first, text, returned>>
    /\ UNCHANGED <<files, parserVars>>

\* The contentChanges of a change notification: none, ranged changes only,
\* or a change without a range that carries the whole text.
Changes ==
  {[kind |-> "none", text |-> <<>>], [kind |-> "ranged", text |-> <<>>]}
    \cup {[kind |-> "full", text |-> c] : c \in Contents}

\* didChangeTextDocument: for a URI ending in .z a full text that asks for
\* the markup mode is validated by the server itself, no change at all is
\* dropped, and everything else goes to the TypeScript handler.
didChangeTextDocument ==
  \E uri \in opened, change \in Changes :
    /\ IF EndsWith(uri, <<".", "z">>) /\ change.kind = "none"
       THEN /\ sent' = Handled("change", uri, change.kind, change.text,
                               FALSE, "nobody")
            /\ UNCHANGED <<cachedRegistry, loaded, first, text, returned>>
       ELSE IF /\ EndsWith(uri, <<".", "z">>) /\ change.kind = "full"
               /\ UseMarkup[change.text]
       THEN /\ validateZDocument(change.text)
            /\ sent' = Handled("change", uri, change.kind, change.text,
                               TRUE, "z")
       ELSE /\ sent' = Handled("change", uri, change.kind, change.text,
                               EndsWith(uri, <<".", "z">>)
                                 /\ change.kind = "full", "ts")
            /\ UNCHANGED <<cachedRegistry, loaded, first, text, returned>>
    /\ UNCHANGED <<files, parserVars, opened, tsOpened>>

\* The embedded registry is in place, or no registry at all.
ServerFiles ==
  { [i \in Candidates |-> IF i = 3 THEN "shipped" ELSE "missing"],
    [i \in Candidates |-> "missing"] }

ServerInit ==
  /\ registry = ShippedRegistry
  /\ pc = "idle"
  /\ lines = <<>>
  /\ contextStack = <<>>
  /\ diagnostics = <<>>
  /\ result = <<>>
  /\ dirty = FALSE
  /\ last = NoLine
  /\ files \in ServerFiles
  /\ cachedRegistry = "null"
  /\ loaded = NotCalled
  /\ first = "none"
  /\ text = <<>>
  /\ returned = NotReturned
  /\ ServerAtRest

ServerNext == didOpenTextDocument \/ didChangeTextDocument

ServerSpec == ServerInit /\ [][ServerNext]_vars

\* ------------------------------------------------------------------- C35
\* The first line of the content that is neither blank nor a comment starts
\* with a target keyword and a space.
FirstMeaningfulLineIsTarget(content) ==
  StartsWithTargetKeyword(FirstMeaningfulLine(Split(content)))

AsksForMarkup == [c \in Contents |-> FirstMeaningfulLineIsTarget(c)] @@ <<>>

\* C35: shouldUseZMarkupMode is true exactly when the first line of the
\* content that is neither blank nor a `//` comment starts with a target
\* keyword followed by a space.
C35_MarkupModeByFirstMeaningfulLine ==
  sent.asked => (sent.markup <=> AsksForMarkup[sent.content])

\* ------------------------------------------------------------------- C36
\* C36: a change notification is passed to the TypeScript handler only for a
\* URI whose open notification was passed to the TypeScript handler.
C36_TsChangeOnlyAfterTsOpen ==
  (sent.op = "change" /\ sent.to = "ts") => sent.uri \in tsOpened

\* ------------------------------------------------------------------- C37
\* getChildrenForTarget of the registry module: target ? allowedChildren : []
getChildrenForTarget(reg, targetName) ==
  IF targetName \in DOMAIN reg.targets
  THEN reg.targets[targetName].allowedChildren
  ELSE <<>>

\* validateChild of the registry module.
RegistryValidateChild(reg, parentTarget, childName) ==
  \/ Includes(getChildrenForTarget(reg, parentTarget), Wildcard)
  \/ Includes(getChildrenForTarget(reg, parentTarget), childName)

\* The last line declared something right inside the body that a registered
\* target opened.
InsideTargetBody ==
  /\ lines # <<>>
  /\ last.shape \in DeclShapes
  /\ last.depthBefore > 0
  /\ TopBefore.elementType \in DOMAIN registry.targets

\* C37: for a declaration right inside the body opened by a registered
\* target, the registry module's validateChild(target, keyword) is true
\* exactly when the parser reports no 'not allowed in' Error for it.
C37_RegistryAgreesWithParser ==
  InsideTargetBody =>
    (RegistryValidateChild(registry, TopBefore.elementType, LastParsed.keyword)
       <=> WithTemplate(last.added, MsgNotAllowed) = {})

\* ------------------------------------------------------------------- C38
\* The candidates that exist, read and parse.
Usable(fs) == {i \in Candidates : fs[i] \notin {"missing", "corrupt"}}

\* C38: a loadRegistry call that throws leaves the cache empty, and the call
\* after it looks at the candidates again: it reads the existing ones in
\* order and returns the first that reads and parses, if there is one now.
C38_FailureIsNotCached ==
  [][ (files' = files /\ loaded.threw)
      => /\ cachedRegistry = "null"
         /\ loaded'.threw <=> Usable(files) = {}
         /\ \A i \in Usable(files) :
              (\A j \in Usable(files) : i <= j)
                => /\ loaded'.value = files[i]
                   /\ loaded'.reads = {j \in 1..i : files[j] # "missing"} ]_vars

\* The call before the last one threw, and the last one returned a registry
\* that has been put in place since.
C38_Witness ==
  /\ loaded.called
  /\ loaded.retry
  /\ ~loaded.threw
  /\ loaded.value \in {"shipped", "small"}
  /\ loaded.reads # {}
  /\ cachedRegistry = loaded.value

\* ------------------------------------------------------------------- C39
\* What the namespace rule and the child rule make of each probing line,
\* each taken alone: whether it matches and the captures without the name of
\* the rule.
Captured(shape, m, keyword) ==
  LET d == Declared(shape, m, keyword)
  IN  <<d.indent, d.keyword, d.name, d.tokenLen, d.openBrace>>

RulesOf ==
  [line \in ProbePool |->
    [namespace |-> NamespaceMatch(line).matched,
     child |-> ChildMatch(line).matched,
     same |-> (NamespaceMatch(line).matched /\ ChildMatch(line).matched)
                => Captured("namespace", NamespaceMatch(line),
                            NamespaceMatch(line).childName)
                     = Captured("child", ChildMatch(line),
                                CleanChildName(ChildMatch(line).childName)),
     byNamespace |-> IF NamespaceMatch(line).matched
                     THEN Declared("namespace", NamespaceMatch(line),
                                   NamespaceMatch(line).childName)
                     ELSE [shape |-> "unmatched"]]] @@ <<>>

\* C39: a line that the namespace rule matches is matched by the child rule
\* too, with the same captures, and the namespace rule applied to it on the
\* stack it found reports and pushes what the parser reported and pushed.
C39_NamespaceRuleIsSubsumed ==
  (lines # <<>> /\ RulesOf[LastLine].namespace
     /\ last.shape \in {"child", "namespace"}) =>
    /\ RulesOf[LastLine].child
    /\ RulesOf[LastLine].same
    /\ LET e == Validate(registry, StackBefore, RulesOf[LastLine].byNamespace,
                         LastLineNumber)
       IN  /\ e.added = last.added
           /\ e.contextStack = contextStack
           /\ e.check = last.check

\* An indented capitalised identifier with a brace was read as a child and
\* pushed.
C39_Witness ==
  /\ lines # <<>>
  /\ RulesOf[LastLine].namespace
  /\ last.shape = "child"
  /\ last.pushed
  /\ LastLine[3] \in Upper

====
